---- MODULE Spec2Model ----
(***************************************************************************)
(* A model of kubecuro: the orchestrator (core/engine.py) with its         *)
(* per-file filesystem steps, and the healing components it drives         *)
(* (lexer, shadow, scanner, shield, validator, exporter).                   *)
(*                                                                         *)
(* Text is modelled line by line.  A line is the record of the tokens the  *)
(* code's patterns take it apart into: its kind (blank, full-line comment, *)
(* document separator, data), indent, list dash, key, quote, value and     *)
(* inline comment.  `dmg` marks a spelling that differs from the canonical *)
(* one of the same tokens (a stuck colon, a tab).                          *)
(***************************************************************************)
EXTENDS Integers, Sequences, FiniteSets, TLC

\* Python's None, for the optional strings of the code.
None == "<None>"

\* Python truthiness of an optional string.
Truthy(s) == s # None /\ s # ""

----------------------------------------------------------------------------
\* Lines.

Line(k, indent, dash, key, q, val, inline, text, dmg) ==
  [k |-> k, indent |-> indent, dash |-> dash, key |-> key, q |-> q,
   val |-> val, inline |-> inline, text |-> text, dmg |-> dmg]

Blank == Line("blank", 0, FALSE, "", "", "", "", "", "")
Cm(i, t) == Line("comment", i, FALSE, "", "", "", "", t, "")
Sep == Line("sep", 0, FALSE, "", "", "", "", "---", "")
KV(i, key, val) == Line("data", i, FALSE, key, "", val, "", "", "")
KVq(i, key, q, val) == Line("data", i, FALSE, key, q, val, "", "", "")
KVc(i, key, val, c) == Line("data", i, FALSE, key, "", val, c, "", "")
KVd(i, key, val, d) == Line("data", i, FALSE, key, "", val, "", "", d)
Item(i, key, val) == Line("data", i, TRUE, key, "", val, "", "", "")

\* str.splitlines() of "\n".join(lines): one trailing empty line is lost.
JoinSplit(lines) ==
  IF Len(lines) > 0 /\ lines[Len(lines)] = Blank
  THEN SubSeq(lines, 1, Len(lines) - 1) ELSE lines

----------------------------------------------------------------------------
\* healing/lexer.py

\* KubeLexer._extract_semantics on the code part of a repaired line:
\* (key, value, is_list).  A separator "---" starts with a dash and has no
\* colon: the value is what follows the first dash.  The value is given
\* without its wrapping quotes, which the shard keeps in `quote`.
ExtractSemantics(l) ==
  CASE l.k \in {"blank", "comment"} ->
         [key |-> "", value |-> None, is_list |-> FALSE]
    [] l.k = "sep" -> [key |-> "", value |-> "--", is_list |-> TRUE]
    [] l.key # "" ->
         [key |-> l.key,
          value |-> IF l.val = "" /\ l.q = "" THEN None ELSE l.val,
          is_list |-> l.dash]
    [] OTHER -> [key |-> "", value |-> l.val, is_list |-> l.dash]

\* A line whose text ends with ':' (key-only, no inline comment).
EndsWithColon(l) == l.k = "data" /\ l.key # "" /\ l.val = "" /\ l.q = "" /\ l.inline = ""

\* The indent repair_line computes for line i of shard(): blank lines give 0;
\* the flush-left recovery prefixes a line that starts with '-' and follows
\* a line ending in ':' with that line's indent plus two.
ShardIndent(lines, i) ==
  LET l == lines[i] IN
  IF l.k = "blank" THEN 0
  ELSE IF i > 1 /\ EndsWithColon(lines[i-1]) /\ l.indent = 0
          /\ (l.dash \/ l.k = "sep")
       THEN lines[i-1].indent + 2
       ELSE l.indent

\* KubeLexer.shard: one Shard per line of the raw text, blank and comment
\* lines included.
LexShard(lines) ==
  [i \in 1..Len(lines) |->
     LET sem == ExtractSemantics(lines[i]) IN
     [line_no |-> i, indent |-> ShardIndent(lines, i), key |-> sem.key,
      value |-> sem.value, quote |-> lines[i].q, is_list_item |-> sem.is_list,
      comment |-> IF lines[i].k = "comment" THEN lines[i].text
                  ELSE IF lines[i].inline # "" THEN lines[i].inline ELSE None,
      raw_line |-> lines[i]]]

----------------------------------------------------------------------------
\* healing/shadow.py

NoComments == << >>

\* A capture loop that commits the pending comments without clearing them.
CaptureLineKeepPending(st, i, l) ==
  IF l.k = "comment" THEN [st EXCEPT !.pending = Append(@, l)]
  ELSE IF l.k = "blank" THEN st
  ELSE IF st.pending # << >> \/ l.inline # ""
       THEN [st EXCEPT !.map =
               (i :> [above_comments |-> st.pending,
                      inline_comment |-> IF l.inline # "" THEN l.inline ELSE None]) @@ @]
       ELSE st

\* One iteration of the loop of KubeShadow.capture over line i: st is
\* [map, pending].
CaptureLine(st, i, l) ==
  IF l.k = "comment" THEN [st EXCEPT !.pending = Append(@, l)]
  ELSE IF l.k = "blank" THEN st
  ELSE IF st.pending # << >> \/ l.inline # ""
       THEN [map |-> (i :> [above_comments |-> st.pending,
                            inline_comment |-> IF l.inline # "" THEN l.inline ELSE None])
                     @@ st.map,
             pending |-> << >>]
       ELSE st

RECURSIVE CaptureFrom(_, _, _)
CaptureFrom(st, lines, i) ==
  IF i > Len(lines) THEN st
  ELSE CaptureFrom(CaptureLine(st, i, lines[i]), lines, i + 1)

\* KubeShadow.capture(raw_text) on a shadow whose comment_map is `map`:
\* the comment_map and the orphans afterwards.  The method assigns into
\* self.comment_map and never clears it.
Capture(map, lines) ==
  LET st == CaptureFrom([map |-> map, pending |-> << >>], lines, 1)
  IN [comment_map |-> st.map, orphans |-> st.pending]

----------------------------------------------------------------------------
\* healing/scanner.py

\* KubeScanner._clean_id on the value text of a line: quotes are stripped
\* from both ends of the whole value, which with an inline comment ends in
\* the comment.
CleanId(l) ==
  IF l.inline = "" THEN l.val ELSE l.val \o l.q \o " " \o l.inline

\* clean_value of a line matching LINE_PATTERN is non-empty.
HasValue(l) == l.val # "" \/ l.q # "" \/ l.inline # ""

\* LINE_PATTERN matches: an optional dash, a key, a colon.
MatchesLinePattern(l) == l.k = "data" /\ l.key # ""

\* One iteration of the loop of KubeScanner.scan: id is [kind, api].
ScanLine(id, l) ==
  IF MatchesLinePattern(l) /\ HasValue(l)
  THEN [kind |-> IF l.key = "kind" THEN CleanId(l) ELSE id.kind,
        api |-> IF l.key = "apiVersion" THEN CleanId(l) ELSE id.api]
  ELSE id

RECURSIVE ScanFrom(_, _, _)
ScanFrom(id, lines, i) ==
  IF i > Len(lines) THEN id ELSE ScanFrom(ScanLine(id, lines[i]), lines, i + 1)

\* A scanner without the reset gate.
ScanKeep(id) == id

\* The reset gate at the top of KubeScanner.scan.
ScanReset(id) == [kind |-> None, api |-> None]

\* KubeScanner.scan(raw_text) on a scanner holding identity `id`, then
\* get_identity().
Scan(id, lines) == ScanFrom(ScanReset(id), lines, 1)

----------------------------------------------------------------------------
\* Reconstructed documents: the tagged tree of CommentedMap (ordered keys),
\* list and scalar.  ca holds the comments above a node, ci its inline
\* comment ("" for none).

MapN(ca, keys, vals) == [tag |-> "map", ca |-> ca, ci |-> "", keys |-> keys, vals |-> vals]
SeqN(ca, items) == [tag |-> "seq", ca |-> ca, ci |-> "", items |-> items]
Scalar(ci, v) == [tag |-> "scalar", ca |-> << >>, ci |-> ci, v |-> v]
Str(v) == Scalar("", v)
EmptyMap == MapN(<< >>, << >>, << >>)

IsMap(n) == n.tag = "map"
IsSeq(n) == n.tag = "seq"
IsScalar(n) == n.tag = "scalar"

\* key in doc
HasKey(m, key) == \E i \in 1..Len(m.keys) : m.keys[i] = key
KeyIdx(m, key) == CHOOSE i \in 1..Len(m.keys) : m.keys[i] = key
\* doc[key]
Get(m, key) == m.vals[KeyIdx(m, key)]
\* doc[key] = v: a present key keeps its position, a new key goes last.
Put(m, key, v) ==
  IF HasKey(m, key)
  THEN [m EXCEPT !.vals[KeyIdx(m, key)] = v]
  ELSE [m EXCEPT !.keys = Append(@, key), !.vals = Append(@, v)]

\* Python truthiness of a tree value.
TruthyNode(n) ==
  CASE IsMap(n) -> n.keys # << >>
    [] IsSeq(n) -> n.items # << >>
    [] OTHER -> n.v # ""

----------------------------------------------------------------------------
\* rules/shield.py

DefaultNamespace == "default"
default_cpu_limit == "500m"
default_mem_limit == "512Mi"

cluster_scoped ==
  {"Namespace", "Node", "ClusterRole", "ClusterRoleBinding",
   "StorageClass", "PersistentVolume", "CustomResourceDefinition"}

workload_kinds == {"Deployment", "StatefulSet", "Job", "DaemonSet", "ReplicaSet"}

NamespaceMsg == "Action: Added 'namespace: default' to satisfy organizational policy."
LimitsMsg == "Warning: Injected default resource limits (512Mi)."

RuleResult(raised, doc, msg) == [raised |-> raised, doc |-> doc, msg |-> msg]

\* `word in x` for an x that is no map: a substring test on a string (over
\* the strings the inputs use), a membership test on a list.
Contains(x, word) ==
  IF IsSeq(x) THEN \E i \in 1..Len(x.items) : x.items[i] = Str(word)
  ELSE x.v \in {word, "x-" \o word}

\* ShieldEngine._rule_ensure_namespace.  On a metadata that is no map the
\* membership test (None) or the item assignment raises TypeError, unless
\* the membership test finds the word.
RuleEnsureNamespace(doc) ==
  LET kind == IF HasKey(doc, "kind") THEN Get(doc, "kind") ELSE Str("")
      d1 == IF HasKey(doc, "metadata") THEN doc ELSE Put(doc, "metadata", EmptyMap)
      metadata == Get(d1, "metadata")
  IN IF ~TruthyNode(kind) \/ (IsScalar(kind) /\ kind.v \in cluster_scoped)
     THEN RuleResult(FALSE, doc, "")
     ELSE IF ~IsMap(metadata) THEN RuleResult(~Contains(metadata, "namespace"), d1, "")
     ELSE IF ~HasKey(metadata, "namespace")
          THEN RuleResult(FALSE,
                          Put(d1, "metadata", Put(metadata, "namespace", Str(DefaultNamespace))),
                          NamespaceMsg)
          ELSE RuleResult(FALSE, d1, "")

DefaultLimits == MapN(<< >>, <<"cpu", "memory">>, <<Str(default_cpu_limit), Str(default_mem_limit)>>)

\* The body of the loop over containers for one container: [raised, c,
\* modified].  A container that is no map raises TypeError at the item
\* assignment or at the subscript; so does a resources that is no map,
\* unless the membership test finds the word.
InjectContainer(c) ==
  IF ~IsMap(c) THEN [raised |-> TRUE, c |-> c, modified |-> FALSE]
  ELSE IF ~HasKey(c, "resources")
       THEN [raised |-> FALSE,
             c |-> Put(c, "resources", MapN(<< >>, <<"limits">>, <<DefaultLimits>>)),
             modified |-> TRUE]
  ELSE IF ~IsMap(Get(c, "resources"))
       THEN [raised |-> ~Contains(Get(c, "resources"), "limits"), c |-> c, modified |-> FALSE]
  ELSE IF ~HasKey(Get(c, "resources"), "limits")
       THEN [raised |-> FALSE,
             c |-> Put(c, "resources", Put(Get(c, "resources"), "limits", DefaultLimits)),
             modified |-> TRUE]
       ELSE [raised |-> FALSE, c |-> c, modified |-> FALSE]

\* x.get(key, {}) of the chain doc.get("spec", {}).get("template", {})...:
\* [ok, v]; ok is false where .get raises AttributeError (x is no map).
DictGet(r, key) ==
  IF ~r.ok \/ ~IsMap(r.v) THEN [ok |-> FALSE, v |-> EmptyMap]
  ELSE [ok |-> TRUE, v |-> IF HasKey(r.v, key) THEN Get(r.v, key) ELSE EmptyMap]

\* doc with the containers list replaced.
WithContainers(doc, cs) ==
  LET spec == Get(doc, "spec")
      tmpl == Get(spec, "template")
      pod  == Get(tmpl, "spec")
  IN Put(doc, "spec", Put(spec, "template", Put(tmpl, "spec", Put(pod, "containers", cs))))

\* ShieldEngine._rule_inject_resource_limits.  AttributeError of the .get
\* chain is caught; the TypeError of iterating or assigning into a value of
\* the wrong shape is not.
RuleInjectResourceLimits(doc) ==
  LET kind == IF HasKey(doc, "kind") THEN Get(doc, "kind") ELSE Str(None)
      pod == DictGet(DictGet(DictGet([ok |-> TRUE, v |-> doc], "spec"), "template"), "spec")
      cont == DictGet(pod, "containers")
      absent == pod.ok /\ IsMap(pod.v) /\ ~HasKey(pod.v, "containers")
  IN IF ~(IsScalar(kind) /\ kind.v \in workload_kinds) THEN RuleResult(FALSE, doc, "")
     ELSE IF ~cont.ok \/ absent THEN RuleResult(FALSE, doc, "")
     ELSE IF ~IsSeq(cont.v)
          THEN \* a map iterates its keys, a string its characters: the
               \* assignment into the first one raises; an empty one is a no-op.
               RuleResult(TruthyNode(cont.v), doc, "")
     ELSE LET res == [i \in 1..Len(cont.v.items) |-> InjectContainer(cont.v.items[i])]
              cs == [cont.v EXCEPT !.items = [i \in 1..Len(res) |-> res[i].c]]
          IN IF \E i \in 1..Len(res) : res[i].raised THEN RuleResult(TRUE, doc, "")
             ELSE IF \E i \in 1..Len(res) : res[i].modified
                  THEN RuleResult(FALSE, WithContainers(doc, cs), LimitsMsg)
                  ELSE RuleResult(FALSE, doc, "")

\* ShieldEngine.protect: the rules in order; [raised, doc, logs].
Protect(doc) ==
  IF ~IsMap(doc) THEN [raised |-> FALSE, doc |-> doc, logs |-> << >>]
  ELSE LET r1 == RuleEnsureNamespace(doc)
           r2 == RuleInjectResourceLimits(r1.doc)
           l1 == IF r1.msg # "" THEN <<r1.msg>> ELSE << >>
           l2 == IF r2.msg # "" THEN <<r2.msg>> ELSE << >>
       IN IF r1.raised THEN [raised |-> TRUE, doc |-> r1.doc, logs |-> << >>]
          ELSE [raised |-> r2.raised, doc |-> r2.doc, logs |-> l1 \o l2]

----------------------------------------------------------------------------
\* validator/validator.py

\* A catalog node, the JSON object {required: [...], fields: {name: info}}
\* and, for a field info, its type and its items schema (a sequence of at
\* most one node).  fks/fvs are the names and infos of `fields`.
Schema(type, required, fks, fvs, items) ==
  [type |-> type, required |-> required, fks |-> fks, fvs |-> fvs, items |-> items]
ScalarField == Schema("string", << >>, << >>, << >>, << >>)
ObjectField(required, fks, fvs) == Schema("object", required, fks, fvs, << >>)
ArrayField(items) == Schema("array", << >>, << >>, << >>, items)

\* schema_fields.get(key) is truthy
HasField(schema, key) == \E i \in 1..Len(schema.fks) : schema.fks[i] = key
FieldInfo(schema, key) == schema.fvs[CHOOSE i \in 1..Len(schema.fks) : schema.fks[i] = key]

\* A validator that does not ask for metadata.
required_fields_short == <<"apiVersion", "kind">>

\* self.required_fields
required_fields == <<"apiVersion", "kind", "metadata">>

\* The (accepted, diagnostic) pair, the diagnostic as its message kind and
\* the field or path it names; raised marks an exception instead.
Verdict(valid, code, name) ==
  [raised |-> FALSE, valid |-> valid, code |-> code, name |-> name]
Accepted == Verdict(TRUE, "Manifest passes structural integrity check.", "")

\* The first of the iterations in `failing`, as an index; 0 for none.
FirstIdx(failing) ==
  IF failing = {} THEN 0 ELSE CHOOSE i \in failing : \A j \in failing : i <= j

\* KubeValidator._deep_validate(doc, schema, path, strict).
RECURSIVE DeepValidate(_, _, _, _)
\* A loop body that does not compare a value's shape with the declared type.
DeepEntryAnyShape(doc, schema, path, strict, i) ==
  LET key == doc.keys[i]
      value == doc.vals[i]
      info == FieldInfo(schema, key)
  IN IF ~HasField(schema, key)
     THEN IF strict THEN Verdict(FALSE, "Strict Mode Violation: Unknown field", path \o key)
          ELSE Accepted
     ELSE IF info.type = "object" /\ IsMap(value)
          THEN DeepValidate(value, info, path \o key \o ".", strict)
     ELSE IF info.type = "array" /\ IsSeq(value)
             /\ info.items # << >> /\ value.items # << >> /\ IsMap(value.items[1])
          THEN DeepValidate(value.items[1], info.items[1], path \o key \o "[0].", strict)
     ELSE Accepted

\* The verdict of the loop body for entry i of doc.items().
DeepEntry(doc, schema, path, strict, i) ==
  LET key == doc.keys[i]
      value == doc.vals[i]
      info == FieldInfo(schema, key)
  IN IF ~HasField(schema, key)
     THEN IF strict THEN Verdict(FALSE, "Strict Mode Violation: Unknown field", path \o key)
          ELSE Accepted
     ELSE IF info.type = "object"
          THEN IF ~IsMap(value) THEN Verdict(FALSE, "must be a map/object", path \o key)
               ELSE DeepValidate(value, info, path \o key \o ".", strict)
     ELSE IF info.type = "array"
          THEN IF ~IsSeq(value) THEN Verdict(FALSE, "must be a list/sequence", path \o key)
               ELSE IF info.items # << >> /\ value.items # << >> /\ IsMap(value.items[1])
                    THEN DeepValidate(value.items[1], info.items[1], path \o key \o "[0].", strict)
                    ELSE Accepted
     ELSE Accepted

\* A validator whose strict mode looks for unknown fields only.
DeepValidateTyposOnly(doc, schema, path, strict) ==
  LET missing == FirstIdx({i \in 1..Len(schema.required) : ~HasKey(doc, schema.required[i])})
      bad == FirstIdx({i \in 1..Len(doc.keys) : ~DeepEntry(doc, schema, path, strict, i).valid})
  IN IF missing # 0 /\ ~strict
     THEN Verdict(FALSE, "is required but missing", path \o schema.required[missing])
     ELSE IF bad # 0 THEN DeepEntry(doc, schema, path, strict, bad)
     ELSE Accepted

DeepValidate(doc, schema, path, strict) ==
  LET missing == FirstIdx({i \in 1..Len(schema.required) : ~HasKey(doc, schema.required[i])})
      bad == FirstIdx({i \in 1..Len(doc.keys) : ~DeepEntry(doc, schema, path, strict, i).valid})
  IN IF missing # 0
     THEN Verdict(FALSE, "is required but missing", path \o schema.required[missing])
     ELSE IF bad # 0 THEN DeepEntry(doc, schema, path, strict, bad)
     ELSE Accepted

\* self.catalog.get(kind) is truthy: catalog is [kinds, schemas].
KnownKind(catalog, kind) == \E i \in 1..Len(catalog.kinds) : catalog.kinds[i] = kind
KindSchema(catalog, kind) ==
  catalog.schemas[CHOOSE i \in 1..Len(catalog.kinds) : catalog.kinds[i] = kind]

\* KubeValidator.validate_reconstruction(doc, strict).  A kind that is a map
\* or a list is unhashable: catalog.get(kind) raises TypeError.
ValidateReconstruction(catalog, doc, strict) ==
  LET missing == FirstIdx({i \in 1..Len(required_fields) : ~HasKey(doc, required_fields[i])})
      kind == Get(doc, "kind")
  IN IF ~IsMap(doc) THEN Verdict(FALSE, "not a valid dictionary structure", "")
     ELSE IF missing # 0
          THEN Verdict(FALSE, "Missing required top-level field", required_fields[missing])
     ELSE IF ~IsScalar(kind) THEN [Verdict(FALSE, "TypeError", "") EXCEPT !.raised = TRUE]
     ELSE IF ~KnownKind(catalog, kind.v)
          THEN Verdict(TRUE, "Warning: Kind is outside local catalog", kind.v)
     ELSE DeepValidate(doc, KindSchema(catalog, kind.v), "", strict)

----------------------------------------------------------------------------
\* The structurer behind HealingPipeline.run's self.structurer.reconstruct
\* (spec section 4.4): a stack of frames (indent threshold, path of the
\* container in the tree, schema node) over the shards of one document.

Permissive == Schema("object", << >>, << >>, << >>, << >>)

Frame(thr, path, schema) == [thr |-> thr, path |-> path, schema |-> schema]

Last(q) == q[Len(q)]
Front(q) == SubSeq(q, 1, Len(q) - 1)

RECURSIVE GetAt(_, _)
GetAt(n, path) ==
  IF path = << >> THEN n
  ELSE GetAt(IF IsMap(n) THEN n.vals[Head(path)] ELSE n.items[Head(path)], Tail(path))

RECURSIVE SetAt(_, _, _)
SetAt(n, path, new) ==
  IF path = << >> THEN new
  ELSE IF IsMap(n) THEN [n EXCEPT !.vals[Head(path)] = SetAt(@, Tail(path), new)]
  ELSE [n EXCEPT !.items[Head(path)] = SetAt(@, Tail(path), new)]

\* A pop that keeps the frames whose threshold equals the shard's indent.
RECURSIVE PopFramesAbove(_, _)
PopFramesAbove(stack, indent) ==
  IF Last(stack).thr > indent THEN PopFramesAbove(Front(stack), indent) ELSE stack

\* Step 3: pop the frames whose threshold is >= the shard's indent.
RECURSIVE PopFrames(_, _)
PopFrames(stack, indent) ==
  IF Last(stack).thr >= indent THEN PopFrames(Front(stack), indent) ELSE stack

\* Step 4: the declared type of the field, or inferred-object for a key
\* without value, else a leaf.
FieldType(schema, s) ==
  IF HasField(schema, s.key) /\ FieldInfo(schema, s.key).type \in {"array", "object"}
  THEN FieldInfo(schema, s.key).type
  ELSE IF s.value = None THEN "object" ELSE "leaf"

ChildSchema(schema, s) ==
  IF ~HasField(schema, s.key) THEN Permissive
  ELSE LET info == FieldInfo(schema, s.key) IN
       IF info.type = "array"
       THEN (IF info.items # << >> THEN info.items[1] ELSE Permissive)
       ELSE info

\* Step 7: the Shadow's record for the shard's line.
AboveOf(cm, s) == IF s.line_no \in DOMAIN cm THEN cm[s.line_no].above_comments ELSE << >>
InlineOf(cm, s) ==
  IF s.line_no \in DOMAIN cm /\ cm[s.line_no].inline_comment # None
  THEN cm[s.line_no].inline_comment ELSE ""

\* Step 6: the node a keyed shard attaches.
NodeOf(schema, s, cm) ==
  CASE FieldType(schema, s) = "array" -> SeqN(AboveOf(cm, s), << >>)
    [] FieldType(schema, s) = "object" -> MapN(AboveOf(cm, s), << >>, << >>)
    [] OTHER -> Scalar(InlineOf(cm, s), s.value)

\* Steps 3 to 7 for one shard: st is [root, stack].
StructStep(st, s, cm) ==
  LET stack == PopFrames(st.stack, s.indent)
      pf == Last(stack)
      c == GetAt(st.root, pf.path)
      block == FieldType(pf.schema, s) # "leaf"
      seqc == IF IsSeq(c) THEN c ELSE SeqN(c.ca, << >>)
      idx == Len(seqc.items) + 1
  IN IF s.is_list_item
     THEN IF s.key = ""
          THEN [root |-> SetAt(st.root, pf.path,
                               [seqc EXCEPT !.items = Append(@, Scalar(InlineOf(cm, s), s.value))]),
                stack |-> stack]
          ELSE [root |-> SetAt(st.root, pf.path,
                               [seqc EXCEPT !.items =
                                  Append(@, MapN(<< >>, <<s.key>>, <<NodeOf(pf.schema, s, cm)>>))]),
                stack |-> stack \o <<Frame(s.indent, pf.path \o <<idx>>, pf.schema)>>
                           \o (IF block
                               THEN <<Frame(s.indent + 2, pf.path \o <<idx, 1>>,
                                            ChildSchema(pf.schema, s))>>
                               ELSE << >>)]
     ELSE IF s.key = ""
          THEN IF IsSeq(c)
               THEN [root |-> SetAt(st.root, pf.path,
                                    [c EXCEPT !.items = Append(@, Scalar(InlineOf(cm, s), s.value))]),
                     stack |-> stack]
               ELSE [root |-> st.root, stack |-> stack]
     ELSE IF IsMap(c)
          THEN LET c2 == Put(c, s.key, NodeOf(pf.schema, s, cm)) IN
               [root |-> SetAt(st.root, pf.path, c2),
                stack |-> IF block
                          THEN Append(stack, Frame(s.indent, pf.path \o <<KeyIdx(c2, s.key)>>,
                                                   ChildSchema(pf.schema, s)))
                          ELSE stack]
          ELSE [root |-> st.root, stack |-> stack]

\* A shard that carries data: the lexer also makes shards of blank and
\* comment lines, which have neither key nor value.
IsDataShard(s) == s.key # "" \/ s.value # None
IsSeparator(s) == s.raw_line.k = "sep"

\* Step 1: the kind of the document's shards from i on up to the separator.
RECURSIVE PreScanKind(_, _)
PreScanKind(shards, i) ==
  IF i > Len(shards) \/ IsSeparator(shards[i]) THEN None
  ELSE IF shards[i].key = "kind" /\ shards[i].value # None THEN shards[i].value
  ELSE PreScanKind(shards, i + 1)

KindRoot(catalog, kind) ==
  IF kind # None /\ KnownKind(catalog, kind) THEN KindSchema(catalog, kind) ELSE Permissive

\* A document under construction; started says whether it has a data shard.
FreshDoc(catalog, shards, i) ==
  [st |-> [root |-> EmptyMap,
           stack |-> <<Frame(-1, << >>, KindRoot(catalog, PreScanKind(shards, i)))>>],
   started |-> FALSE]

\* The documents of the shards from i on: acc is the list so far, cur the
\* document under construction.  Documents are split at separator shards;
\* a slice without data shards gives no document.
RECURSIVE ReconstructFrom(_, _, _, _, _, _)
ReconstructFrom(catalog, shards, cm, i, acc, cur) ==
  LET closed == IF cur.started THEN Append(acc, cur.st.root) ELSE acc
  IN IF i > Len(shards) THEN closed
     ELSE IF IsSeparator(shards[i])
          THEN ReconstructFrom(catalog, shards, cm, i + 1, closed,
                               FreshDoc(catalog, shards, i + 1))
     ELSE IF ~IsDataShard(shards[i])
          THEN ReconstructFrom(catalog, shards, cm, i + 1, acc, cur)
     ELSE ReconstructFrom(catalog, shards, cm, i + 1, acc,
                          [st |-> StructStep(cur.st, shards[i], cm), started |-> TRUE])

\* KubeStructurer.reconstruct(context): context.reconstructed_docs.
Reconstruct(catalog, shards, cm) ==
  ReconstructFrom(catalog, shards, cm, 1, << >>, FreshDoc(catalog, shards, 1))

----------------------------------------------------------------------------
\* healing/exporter.py

preferred_order == <<"apiVersion", "kind", "metadata", "spec", "data", "status">>

IndexIn(q, x) == CHOOSE i \in 1..Len(q) : q[i] = x
InSeq(q, x) == \E i \in 1..Len(q) : q[i] = x

\* A sort key that is the position alone.
SortByPosition(keys, key) == IndexIn(keys, key) - 1

\* sort_logic(key) of _get_sorted_map, over the map's own key list.
SortLogic(keys, key) ==
  IF InSeq(preferred_order, key) THEN IndexIn(preferred_order, key) - 1
  ELSE Len(preferred_order) + (IndexIn(keys, key) - 1)

\* sorted(keys, key=sort_logic): position by position, the key with the
\* least sort value among those not yet placed (the sort values of the
\* distinct keys of a map are distinct).
RECURSIVE SortedFrom(_, _)
SortedFrom(keys, left) ==
  IF left = {} THEN << >>
  ELSE LET k == CHOOSE x \in left : \A y \in left : SortLogic(keys, x) <= SortLogic(keys, y)
       IN <<k>> \o SortedFrom(keys, left \ {k})
SortedKeys(keys) == SortedFrom(keys, {keys[i] : i \in 1..Len(keys)})

\* KubeExporter._get_sorted_map: the keys in sorted order, maps below and
\* maps that are list elements rebuilt the same way, comments carried over.
RECURSIVE GetSortedMap(_)
GetSortedMap(data) ==
  IF ~IsMap(data) THEN data
  ELSE LET sk == SortedKeys(data.keys)
           rebuilt(v) ==
             IF IsMap(v) THEN GetSortedMap(v)
             ELSE IF IsSeq(v)
                  THEN [v EXCEPT !.items = [i \in 1..Len(v.items) |-> GetSortedMap(v.items[i])]]
                  ELSE v
       IN [data EXCEPT !.keys = sk,
                       !.vals = [i \in 1..Len(sk) |-> rebuilt(Get(data, sk[i]))]]

\* yaml.dump of a map at an indent (mapping=2, sequence=4, offset=2): its
\* lines, comments above block-opening keys and inline comments of leaves
\* included.
RECURSIVE DumpMap(_, _)
RECURSIVE DumpEntries(_, _, _)
\* A map as a list element: its first line carries the dash, two columns
\* to the left of its keys.
DumpItem(item, indent) ==
  IF IsMap(item) /\ item.keys # << >>
  THEN LET ls == DumpMap(item, indent + 2)
       IN <<[ls[1] EXCEPT !.dash = TRUE, !.indent = indent]>> \o Tail(ls)
  ELSE IF IsScalar(item) THEN <<Line("data", indent, TRUE, "", "", item.v, item.ci, "", "")>>
  ELSE <<Line("data", indent, TRUE, "", "", IF IsMap(item) THEN "{}" ELSE "[]", "", "", "")>>

RECURSIVE DumpItems(_, _, _)
DumpItems(items, i, indent) ==
  IF i > Len(items) THEN << >>
  ELSE DumpItem(items[i], indent) \o DumpItems(items, i + 1, indent)

DumpEntry(key, v, indent) ==
  CASE IsScalar(v) -> <<Line("data", indent, FALSE, key, "", v.v, v.ci, "", "")>>
    [] IsMap(v) ->
         IF v.keys = << >> THEN v.ca \o <<KV(indent, key, "{}")>>
         ELSE v.ca \o <<KV(indent, key, "")>> \o DumpMap(v, indent + 2)
    [] OTHER ->
         IF v.items = << >> THEN v.ca \o <<KV(indent, key, "[]")>>
         ELSE v.ca \o <<KV(indent, key, "")>> \o DumpItems(v.items, 1, indent + 2)

DumpEntries(m, i, indent) ==
  IF i > Len(m.keys) THEN << >>
  ELSE DumpEntry(m.keys[i], m.vals[i], indent) \o DumpEntries(m, i + 1, indent)

DumpMap(m, indent) == DumpEntries(m, 1, indent)

\* KubeExporter.export(docs, context) from document i on: falsy documents
\* are skipped, and a document at an index above 0 gets the separator.
RECURSIVE ExportFrom(_, _)
ExportFrom(docs, i) ==
  IF i > Len(docs) THEN << >>
  ELSE IF ~TruthyNode(docs[i]) THEN ExportFrom(docs, i + 1)
  ELSE (IF i > 1 THEN <<Sep>> ELSE << >>) \o DumpMap(GetSortedMap(docs[i]), 0)
       \o ExportFrom(docs, i + 1)

Export(docs) == ExportFrom(docs, 1)

----------------------------------------------------------------------------
\* healing/pipeline.py and healing/context.py

\* HealingPipeline.run(input_text) on a pipeline whose shadow holds
\* comment_map `map` and whose scanner holds identity `id`: the HealContext,
\* with the shadow's and the scanner's state afterwards.  The shadow and the
\* scanner read the text joined back from the shards' raw lines.
PipelineRun(catalog, map, id, lines) ==
  LET shards == LexShard(lines)
      cleaned_text == JoinSplit([i \in 1..Len(shards) |-> shards[i].raw_line])
      shadow == Capture(map, cleaned_text)
      ident == Scan(id, cleaned_text)
  IN [raw_text |-> cleaned_text,
      shards |-> shards,
      comment_map |-> shadow.comment_map,
      orphans |-> shadow.orphans,
      kind |-> ident.kind,
      api_version |-> ident.api,
      reconstructed_docs |-> Reconstruct(catalog, shards, shadow.comment_map)]

----------------------------------------------------------------------------
\* The workspace: files by relative path, with what pathlib derives from
\* the path.

Files == {"a.yaml", "B.YAML", "d/c.yaml", "n.1"}
\* The order in which rglob yields them.
FileOrder == <<"a.yaml", "B.YAML", "d/c.yaml", "n.1">>

\* file_path.suffix
Ext(f) == CASE f = "B.YAML" -> ".YAML" [] f = "n.1" -> ".1" [] OTHER -> ".yaml"
\* len(file_path.relative_to(self.workspace).parts)
Depth(f) == IF f = "d/c.yaml" THEN 2 ELSE 1
\* target_path.with_suffix(''): directory and stem
Stem(f) == CASE f = "a.yaml" -> "a" [] f = "B.YAML" -> "B" [] f = "n.1" -> "n"
             [] OTHER -> "d/c"

\* File contents: no file, bytes that are not UTF-8, or text by lines.
Absent == [t |-> "absent", lines |-> << >>]
Garbage == [t |-> "garbage", lines |-> << >>]
Text(lines) == [t |-> "text", lines |-> lines]

\* str.strip() of a text: blank lines at both ends and the indent of the
\* first line go.
RECURSIVE StripLeft(_)
StripLeft(lines) ==
  IF lines = << >> THEN lines
  ELSE IF Head(lines).k = "blank" THEN StripLeft(Tail(lines))
  ELSE <<[Head(lines) EXCEPT !.indent = 0]>> \o Tail(lines)
RECURSIVE StripRight(_)
StripRight(lines) ==
  IF lines = << >> THEN lines
  ELSE IF Last(lines).k = "blank" THEN StripRight(Front(lines))
  ELSE lines
Strip(lines) == StripLeft(StripRight(lines))

----------------------------------------------------------------------------
\* The inputs: a catalog and the texts files hold.

MetadataField == ObjectField(<< >>, <<"name", "namespace">>, <<ScalarField, ScalarField>>)
PodSchema ==
  Schema("object", <<"metadata">>, <<"apiVersion", "kind", "metadata">>,
         <<ScalarField, ScalarField, MetadataField>>, << >>)
EngineCatalog == [kinds |-> <<"Pod">>, schemas |-> <<PodSchema>>]

\* Canonical and valid: nothing to heal.
TextOk == <<KV(0, "apiVersion", "v1"), KV(0, "kind", "Pod"), KV(0, "metadata", ""),
            KV(2, "namespace", "prod")>>
\* Stuck colons and a one-space indent, a kind outside the catalog.
TextDamaged == <<KV(0, "apiVersion", "v1"), KVd(0, "kind", "Widget", "stuck"),
                 KV(0, "metadata", ""), KVd(1, "name", "x", "stuck")>>
\* A known kind with a field the catalog does not declare.
TextTypo == <<KV(0, "apiVersion", "v1"), KVd(0, "kind", "Pod", "stuck"),
              KV(0, "metadata", ""), KV(2, "namespace", "prod"), KV(0, "typo", "true")>>
\* No kind line, canonical as it stands.
TextNoKind == <<KV(0, "metadata", ""), KV(2, "name", "x")>>
\* No kind line, one-space indent.
TextNoKindDamaged == <<KV(0, "metadata", ""), KV(1, "name", "x")>>
\* Comments: above a block-opening key, and inline on a leaf.
TextComments == <<Cm(0, "# owner"), KV(0, "metadata", ""), KVc(2, "name", "x", "# n")>>
\* metadata is a scalar, under a kind whose fields no schema declares.
TextScalarMeta == <<KV(0, "kind", "Widget"), KV(0, "metadata", "x")>>
TextEmpty == << >>

Corpus ==
  {TextOk, TextDamaged, TextTypo, TextNoKind, TextNoKindDamaged, TextComments,
   TextScalarMeta, TextEmpty}

----------------------------------------------------------------------------
\* core/engine.py: AuditEngineV3

VARIABLES
  fs,           \* the files of the workspace: path -> content
  backups,      \* the *.kubecuro.backup files: <<stem, counter>> -> content
  tmp,          \* the *.kubecuro.tmp files: stem -> content
  comment_map,  \* self.pipeline.shadow.comment_map
  orphans,      \* self.pipeline.shadow.orphans
  found,        \* self.pipeline.scanner: [kind, api]
  pc,           \* where the running call stands
  queue,        \* the files the running call or batch still has to process
  args,         \* dry_run, force_write, strict (and max_depth, batch)
  cur,          \* the locals of audit_and_heal_file between its steps
  done,         \* the reports returned in this run, each with its facts
  platform,     \* whether pathlib matches patterns case-sensitively
  faults,       \* the I/O faults that have struck so far
  rewritten     \* the files this engine has replaced with an export

vars == <<fs, backups, tmp, comment_map, orphans, found, pc, queue, args, cur, done, platform,
          faults, rewritten>>

Statuses == {"UNCHANGED", "PREVIEW", "HEALED", "PARTIAL", "FAILED",
             "FILE_NOT_FOUND", "ENGINE_ERROR"}

\* _file_error(relative_path, status, error)
\* A report without backup_created.
NoBackup == << >>

FileError(f, status) ==
  [file_path |-> f, status |-> status, success |-> FALSE, partial_heal |-> FALSE,
   kind |-> "Unknown", written |-> FALSE, backup_created |-> NoBackup,
   healed_content |-> None, write_error |-> FALSE, backup_warning |-> FALSE,
   validation_error |-> "", logic_logs |-> << >>, full |-> FALSE]

\* target_path.with_suffix('.kubecuro.backup'), or the first
\* stem-<counter>.kubecuro.backup that does not exist.
CreateUniqueBackup(existing, stem) ==
  IF <<stem, 0>> \notin existing THEN <<stem, 0>>
  ELSE <<stem, CHOOSE n \in 1..(Cardinality(existing) + 1) :
                 /\ <<stem, n>> \notin existing
                 /\ \A m \in 1..(n - 1) : <<stem, m>> \in existing>>

\* The write decision of PHASE 3.
\* Variants of the write decision: one that writes whatever the heal gave,
\* one that forgets the dry run.
ShouldWriteAnyHeal(dry_run, is_modified, success, partial_heal, force_write) ==
  ~dry_run /\ is_modified
ShouldWriteInDryRun(dry_run, is_modified, success, partial_heal, force_write) ==
  is_modified /\ (success \/ (partial_heal /\ force_write))

ShouldWrite(dry_run, is_modified, success, partial_heal, force_write) ==
  ~dry_run /\ is_modified /\ (success \/ (partial_heal /\ force_write))

\* A status that tests dry_run before is_modified.
DisplayStatusDryRunFirst(is_modified, dry_run, success, partial_heal) ==
  IF dry_run THEN "PREVIEW"
  ELSE IF ~is_modified THEN "UNCHANGED"
  ELSE IF success THEN "HEALED" ELSE IF partial_heal THEN "PARTIAL" ELSE "FAILED"

\* display_status of PHASE 2.
DisplayStatus(is_modified, dry_run, success, partial_heal) ==
  IF ~is_modified THEN "UNCHANGED"
  ELSE IF dry_run THEN "PREVIEW"
  ELSE IF success THEN "HEALED" ELSE IF partial_heal THEN "PARTIAL" ELSE "FAILED"

\* The status the command-line loop gives its own error reports.
EngineErrorStatus == "ENGINE_ERROR"

\* The status of the report for an exception caught in PHASE 2.
PhaseErrorStatus == "HEAL_FAILED"

\* A report whose success is the success of PHASE 2 alone.
HealSuccessOnly(success, is_modified) == success

\* result["success"] of the result dictionary.
ResultSuccess(success, is_modified) == success \/ ~is_modified

\* success of PHASE 2: identity found, at least one document, and every
\* document valid.
Success(kind, protected_docs, validation_passed) ==
  Truthy(kind) /\ protected_docs # << >> /\ validation_passed

\* partial_heal of PHASE 2.
PartialHeal(success, shards) == ~success /\ Len(shards) > 0

\* is_modified: the text read and the export differ after strip().
IsModified(raw_text, final_yaml) == Strip(raw_text) # Strip(final_yaml)

\* The validation loop keeps the message of the last document that failed:
\* its index, 0 when every document passed.
LastInvalid(verdicts) ==
  IF \A i \in 1..Len(verdicts) : verdicts[i].valid THEN 0
  ELSE CHOOSE i \in 1..Len(verdicts) :
         ~verdicts[i].valid /\ \A j \in (i+1)..Len(verdicts) : verdicts[j].valid

ValidationError(verdicts, last) ==
  IF last = 0 THEN "" ELSE verdicts[last].code \o " " \o verdicts[last].name

\* What PHASE 2 hands to PHASE 3.
HealOutcome(context, protected_docs, logs, verdicts, final_yaml, success, lines) ==
  [raised |-> FALSE,
   context |-> context,
   protected_docs |-> protected_docs,
   validation_passed |-> LastInvalid(verdicts) = 0,
   validation_error |-> ValidationError(verdicts, LastInvalid(verdicts)),
   logic_logs |-> logs,
   final_yaml |-> final_yaml,
   success |-> success,
   partial_heal |-> PartialHeal(success, context.shards),
   is_modified |-> IsModified(lines, final_yaml)]

\* all_logic_logs.extend(logs) over the documents in order.
RECURSIVE ExtendLogs(_, _)
ExtendLogs(shielded, i) ==
  IF i > Len(shielded) THEN << >>
  ELSE shielded[i].logs \o ExtendLogs(shielded, i + 1)

HealExport(context, protected_docs, shielded, verdicts, lines) ==
  HealOutcome(context, protected_docs, ExtendLogs(shielded, 1), verdicts,
              Export(protected_docs),
              Success(context.kind, protected_docs, LastInvalid(verdicts) = 0),
              lines)

\* The shield and validation loop over the reconstructed documents; an
\* exception from either leaves PHASE 2 through its except clause.
HealDocs(catalog, context, shielded, lines, strict) ==
  IF \E i \in 1..Len(shielded) :
        \/ shielded[i].raised
        \/ ValidateReconstruction(catalog, shielded[i].doc, strict).raised
  THEN [raised |-> TRUE, context |-> context]
  ELSE HealExport(context,
                  [i \in 1..Len(shielded) |-> shielded[i].doc],
                  shielded,
                  [i \in 1..Len(shielded) |->
                     ValidateReconstruction(catalog, shielded[i].doc, strict)],
                  lines)

HealContext(catalog, context, lines, strict) ==
  HealDocs(catalog, context,
           [i \in 1..Len(context.reconstructed_docs) |->
              Protect(context.reconstructed_docs[i])],
           lines, strict)

\* PHASE 2 on the text of a file, after the read: the pipeline, then shield
\* and validation of each document in order, the export and the flags.
\* raised says that one of the calls raised, which the except clause turns
\* into an error report.
Heal(catalog, map, id, lines, strict) ==
  HealContext(catalog, PipelineRun(catalog, map, id, lines), lines, strict)

\* The facts of one call, kept beside its report: the arguments, what the
\* phases found, the file and the backups before the call, and the
\* filesystem operations of the call in order.
Facts(f, path) ==
  [file |-> f, path |-> path,
   dry_run |-> args.dry_run, force_write |-> args.force_write, strict |-> args.strict,
   identity |-> FALSE, ndocs |-> 0, validation_passed |-> FALSE, nshards |-> 0,
   is_modified |-> FALSE, final_yaml |-> << >>,
   context |-> << >>, found_before |-> found, map_before |-> comment_map, fault |-> "",
   pre |-> fs[f], pre_backups |-> backups, pre_rewritten |-> f \in rewritten, ops |-> << >>]

\* The call returns `report`: with the files as the call leaves them.
Finish(report, facts, fs2, backups2, tmp2) ==
  /\ done' = Append(done, [r |-> report,
                           g |-> [post |-> fs2[facts.file], post_backups |-> backups2,
                                  post_tmp |-> tmp2[Stem(facts.file)]] @@ facts])
  /\ queue' = Tail(queue)
  /\ pc' = IF Tail(queue) = << >> THEN "idle" ELSE "begin"
  /\ cur' = << >>

\* The result dictionary built in PHASE 3.
Result(f, h) ==
  [file_path |-> f,
   success |-> ResultSuccess(h.success, h.is_modified),
   partial_heal |-> h.partial_heal,
   status |-> DisplayStatus(h.is_modified, args.dry_run, h.success, h.partial_heal),
   kind |-> h.context.kind,
   written |-> FALSE,
   backup_created |-> NoBackup,
   healed_content |-> IF h.is_modified THEN h.final_yaml ELSE None,
   write_error |-> FALSE,
   backup_warning |-> FALSE,
   validation_error |-> h.validation_error,
   logic_logs |-> h.logic_logs,
   full |-> TRUE]

\* audit_and_heal_file up to the write decision (PHASES 1 to 3) for the
\* file at the head of the queue; in a batch, after the depth check of
\* scan_directory's loop.
AuditFile ==
  /\ pc = "begin"
  /\ \E f \in {Head(queue)} :
     \E h \in {IF fs[f] \in {Absent, Garbage} THEN [raised |-> TRUE]
                ELSE Heal(EngineCatalog, comment_map, found, fs[f].lines, args.strict)} :
     LET facts == [Facts(f, "processed") EXCEPT
                     !.identity = Truthy(h.context.kind),
                     !.ndocs = Len(h.context.reconstructed_docs),
                     !.validation_passed = h.validation_passed,
                     !.nshards = Len(h.context.shards),
                     !.is_modified = h.is_modified,
                     !.final_yaml = h.final_yaml,
                     !.context = h.context,
                     !.ops = <<"read">>]
     IN IF args.batch /\ Depth(f) > args.max_depth
        THEN /\ queue' = Tail(queue)
             /\ pc' = IF Tail(queue) = << >> THEN "idle" ELSE "begin"
             /\ UNCHANGED <<fs, backups, tmp, comment_map, orphans, found, cur, done>>
        ELSE IF fs[f] = Absent
        THEN /\ Finish(FileError(f, "FILE_NOT_FOUND"), Facts(f, "missing"), fs, backups, tmp)
             /\ UNCHANGED <<fs, backups, tmp, comment_map, orphans, found>>
        ELSE IF fs[f] = Garbage
        THEN /\ Finish(FileError(f, PhaseErrorStatus),
                       [Facts(f, "error") EXCEPT !.ops = <<"read">>], fs, backups, tmp)
             /\ UNCHANGED <<fs, backups, tmp, comment_map, orphans, found>>
        ELSE /\ comment_map' = h.context.comment_map
             /\ orphans' = h.context.orphans
             /\ found' = [kind |-> h.context.kind, api |-> h.context.api_version]
             /\ UNCHANGED <<fs, backups, tmp>>
             /\ IF h.raised
                THEN Finish(FileError(f, PhaseErrorStatus),
                            [Facts(f, "error") EXCEPT
                               !.identity = Truthy(h.context.kind),
                               !.ndocs = Len(h.context.reconstructed_docs),
                               !.nshards = Len(h.context.shards),
                               !.context = h.context,
                               !.ops = <<"read">>],
                            fs, backups, tmp)
                ELSE IF ShouldWrite(args.dry_run, h.is_modified, h.success,
                                    h.partial_heal, args.force_write)
                THEN /\ cur' = [result |-> Result(f, h), facts |-> facts]
                     /\ pc' = "backup"
                     /\ UNCHANGED <<queue, done>>
                ELSE Finish(Result(f, h), facts, fs, backups, tmp)
  /\ UNCHANGED <<args, platform, faults, rewritten>>

\* The number of I/O faults (a failed copy, a refused permission, a failed
\* write or rename) the environment injects in one behaviour.
MaxFaults == 1

\* The outcomes of shutil.copy2 followed by relative_to: the copy is made
\* and named in the report, it fails before any file exists, or the file
\* is copied and a later step (copystat, relative_to) raises.
CopyOutcomes == {"copied", "failed", "copied-then-raised"}

\* An outcome the environment may still choose: `good` always, another one
\* while faults are left.
Strikes(outcome, good) ==
  /\ outcome # good => faults < MaxFaults
  /\ faults' = IF outcome = good THEN faults ELSE faults + 1

\* PHASE 4, first half: the backup.  Any exception is kept as
\* backup_warning and the call goes on.
Backup ==
  /\ pc = "backup"
  /\ \E outcome \in CopyOutcomes :
       LET f == cur.facts.file
           backup_path == CreateUniqueBackup(DOMAIN backups, Stem(f))
       IN /\ Strikes(outcome, "copied")
          /\ backups' = IF outcome = "failed" THEN backups
                        ELSE (backup_path :> fs[f]) @@ backups
          /\ cur' = [cur EXCEPT
                       !.result.backup_created =
                          IF outcome = "copied" THEN backup_path ELSE NoBackup,
                       !.result.backup_warning = (outcome # "copied"),
                       !.facts.ops = IF outcome = "failed" THEN @ ELSE Append(@, "copy"),
                       !.facts.fault = IF outcome = "copied" THEN @ ELSE outcome]
  /\ pc' = "write"
  /\ UNCHANGED <<fs, tmp, comment_map, orphans, found, queue, args, done, platform, rewritten>>

\* An except clause that leaves the temp file behind.
LeaveTemp(t, stem) == t

\* temp_file.unlink() of the except clause of _atomic_write.
UnlinkTemp(t, stem) == [t EXCEPT ![stem] = Absent]

\* `except IOError` of PHASE 4: IOError is OSError, and PermissionError
\* derives from it.
CaughtAsIOError(exc) == exc \in {"IOError", "OSError", "PermissionError"}

\* The report after _atomic_write raised `exc`; an exception the clause
\* does not catch leaves the call.
WriteFailed(result, exc) ==
  IF CaughtAsIOError(exc)
  THEN [result EXCEPT !.write_error = TRUE, !.success = FALSE]
  ELSE [result EXCEPT !.status = "<raised>"]

\* _atomic_write up to the rename: the permission check, then the write of
\* the temp file.  A failed write may leave a partial temp file, which the
\* except clause removes.
Write ==
  /\ pc = "write"
  /\ \E outcome \in {"no-access", "written", "write-failed"} :
       LET f == cur.facts.file
           partial == [tmp EXCEPT ![Stem(f)] = Garbage]
       IN /\ Strikes(outcome, "written")
          /\ CASE outcome = "no-access" ->
                 /\ Finish(WriteFailed(cur.result, "PermissionError"),
                           [cur.facts EXCEPT !.fault = outcome], fs, backups, tmp)
                 /\ UNCHANGED tmp
            [] outcome = "written" ->
                 /\ tmp' = [tmp EXCEPT ![Stem(f)] = Text(cur.facts.final_yaml)]
                 /\ cur' = [cur EXCEPT !.facts.ops = Append(@, "tmpwrite")]
                 /\ pc' = "replace"
                 /\ UNCHANGED <<queue, done>>
            [] outcome = "write-failed" ->
                 /\ tmp' = UnlinkTemp(partial, Stem(f))
                 /\ Finish(WriteFailed(cur.result, "IOError"),
                           [cur.facts EXCEPT !.ops = @ \o <<"tmpwrite", "unlink">>,
                                             !.fault = outcome],
                           fs, backups, tmp')
  /\ UNCHANGED <<fs, backups, comment_map, orphans, found, args, platform, rewritten>>

\* os.replace(temp_file, target_path), or its failure and the cleanup.
Replace ==
  /\ pc = "replace"
  /\ \E outcome \in {"replaced", "replace-failed"} :
       LET f == cur.facts.file IN
       /\ Strikes(outcome, "replaced")
       /\ IF outcome = "replaced"
          THEN /\ fs' = [fs EXCEPT ![f] = tmp[Stem(f)]]
               /\ tmp' = [tmp EXCEPT ![Stem(f)] = Absent]
               /\ rewritten' = rewritten \cup {f}
               /\ Finish([cur.result EXCEPT !.written = TRUE],
                         [cur.facts EXCEPT !.ops = Append(@, "replace")],
                         fs', backups, tmp')
          ELSE /\ fs' = fs
               /\ tmp' = UnlinkTemp(tmp, Stem(f))
               /\ rewritten' = rewritten
               /\ Finish(WriteFailed(cur.result, "IOError"),
                         [cur.facts EXCEPT !.ops = Append(@, "unlink"), !.fault = outcome],
                         fs, backups, tmp')
  /\ UNCHANGED <<backups, comment_map, orphans, found, args, platform>>

\* The number of backup files the workspace may hold before the model stops
\* taking new calls.
MaxBackups == 2

\* A caller invokes audit_and_heal_file(relative_path, dry_run,
\* force_write, strict).
StartCall ==
  /\ pc = "idle"
  /\ Cardinality(DOMAIN backups) < MaxBackups
  /\ \E f \in {"a.yaml", "B.YAML"}, d, fw, st \in BOOLEAN :
       /\ queue' = <<f>>
       /\ args' = [dry_run |-> d, force_write |-> fw, strict |-> st,
                   max_depth |-> 0, batch |-> FALSE, candidates |-> <<f>>]
  /\ pc' = "begin"
  /\ done' = << >>
  /\ UNCHANGED <<fs, backups, tmp, comment_map, orphans, found, cur, platform, faults,
               rewritten>>

\* The state after AuditEngineV3.__init__, over a workspace with files.
EngineInit ==
  /\ backups = << >>
  /\ tmp = [s \in {Stem(f) : f \in Files} |-> Absent]
  /\ comment_map = NoComments
  /\ orphans = << >>
  /\ found = [kind |-> None, api |-> None]
  /\ pc = "idle"
  /\ queue = << >>
  /\ args = [dry_run |-> TRUE, force_write |-> FALSE, strict |-> FALSE,
             max_depth |-> 0, batch |-> FALSE, candidates |-> << >>]
  /\ cur = << >>
  /\ done = << >>
  /\ faults = 0
  /\ rewritten = {}

Init ==
  /\ EngineInit
  /\ platform = TRUE
  /\ \E a \in {Text(t) : t \in Corpus} \cup {Garbage},
        b \in {Text(TextComments), Text(TextNoKind), Absent} :
       fs = [f \in Files |-> CASE f = "a.yaml" -> a [] f = "B.YAML" -> b
                               [] OTHER -> Text(TextOk)]

Next == StartCall \/ AuditFile \/ Backup \/ Write \/ Replace

Spec == Init /\ [][Next]_vars

----------------------------------------------------------------------------
\* scan_directory

\* str.lower() and str.upper() of an extension.
Lower(ext) == IF ext = ".YAML" THEN ".yaml" ELSE ext
Upper(ext) == IF ext = ".yaml" THEN ".YAML" ELSE ext

\* Whether rglob("*" + pattern_ext) yields f: pathlib compares case-folded
\* names where the flavour is case-insensitive.
Matches(pattern_ext, f, case_sensitive) ==
  IF case_sensitive THEN Ext(f) = pattern_ext
  ELSE Lower(Ext(f)) = Lower(pattern_ext)

\* [f for f in self.workspace.rglob(p) if f.is_file() and not f.is_symlink()]
RECURSIVE Rglob(_, _, _, _)
Rglob(files, pattern_ext, i, case_sensitive) ==
  IF i > Len(FileOrder) THEN << >>
  ELSE (IF files[FileOrder[i]] # Absent /\ Matches(pattern_ext, FileOrder[i], case_sensitive)
        THEN <<FileOrder[i]>> ELSE << >>)
       \o Rglob(files, pattern_ext, i + 1, case_sensitive)

\* all_files: the matches of the lower-case pattern, then those of the
\* upper-case pattern.
AllFiles(files, extension, case_sensitive) ==
  Rglob(files, Lower(extension), 1, case_sensitive)
  \o Rglob(files, Upper(extension), 1, case_sensitive)

\* A caller invokes scan_directory(extension, dry_run, force_write, strict,
\* max_depth).
StartScan ==
  /\ pc = "idle"
  /\ Cardinality(DOMAIN backups) < MaxBackups
  /\ \E extension \in {".yaml", ".1"}, d, fw, st \in BOOLEAN, md \in {1, 2} :
       LET all_files == AllFiles(fs, extension, platform) IN
       /\ queue' = all_files
       /\ args' = [dry_run |-> d, force_write |-> fw, strict |-> st,
                   max_depth |-> md, batch |-> TRUE, candidates |-> all_files]
       /\ pc' = IF all_files = << >> THEN "idle" ELSE "begin"
  /\ done' = << >>
  /\ UNCHANGED <<fs, backups, tmp, comment_map, orphans, found, cur, platform, faults,
               rewritten>>

\* Another process removes a discovered file before the loop reaches it.
Vanish ==
  /\ pc = "begin"
  /\ args.batch
  /\ fs[Head(queue)] # Absent
  /\ faults < MaxFaults
  /\ faults' = faults + 1
  /\ fs' = [fs EXCEPT ![Head(queue)] = Absent]
  /\ rewritten' = rewritten \ {Head(queue)}
  /\ UNCHANGED <<backups, tmp, comment_map, orphans, found, pc, queue, args, cur,
                 done, platform>>

InitBatch ==
  /\ EngineInit
  /\ platform \in BOOLEAN
  /\ \E a \in {Text(TextDamaged), Text(TextScalarMeta), Garbage},
        c \in {Text(TextOk), Text(TextNoKindDamaged)} :
       fs = [f \in Files |-> CASE f = "a.yaml" -> a [] f = "d/c.yaml" -> c
                               [] OTHER -> Text(TextOk)]

NextBatch == StartScan \/ Vanish \/ AuditFile \/ Backup \/ Write \/ Replace

SpecBatch == InitBatch /\ [][NextBatch]_vars

----------------------------------------------------------------------------
\* KubeValidator on its own: validate_reconstruction over documents,
\* catalogs and the strict flag.

TopKeys == <<"apiVersion", "kind", "metadata", "spec">>

\* The value a document holds under a top-level key.
TopValue(key, kind, meta) ==
  CASE key = "apiVersion" -> Str("v1")
    [] key = "kind" -> Str(kind)
    [] key = "metadata" -> meta
    [] OTHER -> Str("s")

\* The document with the keys of TopKeys that are in present, in order.
RECURSIVE TopDoc(_, _, _, _)
TopDoc(present, kind, meta, i) ==
  IF i > Len(TopKeys) THEN EmptyMap
  ELSE LET rest == TopDoc(present, kind, meta, i + 1)
       IN IF TopKeys[i] \in present
          THEN MapN(<< >>, <<TopKeys[i]>> \o rest.keys,
                    <<TopValue(TopKeys[i], kind, meta)>> \o rest.vals)
          ELSE rest

ValMetas == {MapN(<< >>, <<"name">>, <<Str("x")>>), Str("x")}
ValDocs ==
  {TopDoc(present, kind, meta, 1) :
     present \in SUBSET {"apiVersion", "kind", "metadata", "spec"},
     kind \in {"Pod", "Widget"}, meta \in ValMetas}
  \cup {Str("x"), Str(""), SeqN(<< >>, <<EmptyMap>>)}

\* A catalog with requirements below the top level: metadata requires
\* name, spec.containers is an array whose items require name.
ContainerSchema ==
  Schema("object", <<"name">>, <<"name", "resources">>,
         <<ScalarField, ObjectField(<< >>, <<"limits">>, <<ScalarField>>)>>, << >>)
DeepSchema ==
  Schema("object", <<"spec">>, <<"apiVersion", "kind", "metadata", "spec">>,
         <<ScalarField, ScalarField,
           ObjectField(<<"name">>, <<"name", "namespace">>, <<ScalarField, ScalarField>>),
           ObjectField(<< >>, <<"containers">>, <<ArrayField(<<ContainerSchema>>)>>)>>,
         << >>)
DeepCatalog == [kinds |-> <<"Pod">>, schemas |-> <<DeepSchema>>]

\* Containers: complete, without the required name, with a key the catalog
\* does not declare, and with a scalar for resources.
COk == MapN(<< >>, <<"name">>, <<Str("c")>>)
CNoName == MapN(<< >>, <<"resources">>, <<EmptyMap>>)
CTypo == MapN(<< >>, <<"name", "nmae">>, <<Str("c"), Str("c")>>)
CResScalar == MapN(<< >>, <<"name", "resources">>, <<Str("c"), Str("x")>>)

SpecWith(containers) == MapN(<< >>, <<"containers">>, <<containers>>)

DeepMetas ==
  {MapN(<< >>, <<"name">>, <<Str("x")>>), EmptyMap,
   MapN(<< >>, <<"name", "labels">>, <<Str("x"), Str("l")>>)}
DeepSpecs ==
  {Str("s"), SpecWith(Str("c"))}
  \cup {SpecWith(SeqN(<< >>, items)) :
          items \in {<< >>, <<COk>>, <<CNoName>>, <<COk, CNoName>>, <<COk, CTypo>>,
                     <<CTypo>>, <<CResScalar>>, <<COk, CResScalar>>,
                     <<Str("c"), CNoName>>}}

\* A Pod document with the given metadata and spec, and with or without a
\* top-level key the catalog does not declare.
DeepDoc(kind, meta, spec, typo) ==
  MapN(<< >>,
       <<"apiVersion", "kind", "metadata", "spec">> \o (IF typo THEN <<"typo">> ELSE << >>),
       <<Str("v1"), kind, meta, spec>> \o (IF typo THEN <<Str("true")>> ELSE << >>))
DeepDocs ==
  {DeepDoc(Str("Pod"), meta, spec, typo) :
     meta \in DeepMetas, spec \in DeepSpecs, typo \in BOOLEAN}
  \cup {DeepDoc(kind, EmptyMap, Str("s"), FALSE) :
          kind \in {Str("Widget"), Str(""), MapN(<< >>, <<"name">>, <<Str("Pod")>>)}}

ValCatalogs == {EngineCatalog, [kinds |-> << >>, schemas |-> << >>], DeepCatalog}

\* A caller holds a validator over a catalog, a document and a flag.
InitVal ==
  /\ EngineInit
  /\ platform = TRUE
  /\ fs = [f \in Files |-> Absent]

StartValidate ==
  /\ pc = "idle"
  /\ \E doc \in ValDocs \cup DeepDocs, catalog \in ValCatalogs, strict \in BOOLEAN :
       cur' = [doc |-> doc, catalog |-> catalog, strict |-> strict]
  /\ pc' = "validate"
  /\ done' = << >>
  /\ UNCHANGED <<fs, backups, tmp, comment_map, orphans, found, queue, args, platform, faults,
               rewritten>>

\* validate_reconstruction(doc, strict) returns; in_strict is what the same
\* validator returns for the same document with strict=True.
Validate ==
  /\ pc = "validate"
  /\ done' = <<[doc |-> cur.doc, catalog |-> cur.catalog, strict |-> cur.strict,
                verdict |-> ValidateReconstruction(cur.catalog, cur.doc, cur.strict),
                in_strict |-> ValidateReconstruction(cur.catalog, cur.doc, TRUE)]>>
  /\ pc' = "idle"
  /\ cur' = << >>
  /\ UNCHANGED <<fs, backups, tmp, comment_map, orphans, found, queue, args, platform, faults,
               rewritten>>

NextVal == StartValidate \/ Validate

SpecVal == InitVal /\ [][NextVal]_vars

----------------------------------------------------------------------------
\* ShieldEngine.protect on its own: a caller holds a shield with the default
\* limits and hands it a reconstructed document.

\* A key the document does not have.
NoField == [tag |-> "absent"]

\* Containers with limits of their own and with resources without limits.
CLimits ==
  MapN(<< >>, <<"name", "resources">>,
       <<Str("c"), MapN(<< >>, <<"limits">>, <<MapN(<< >>, <<"cpu">>, <<Str("1")>>)>>)>>)
CNoLimits ==
  MapN(<< >>, <<"name", "resources">>,
       <<Str("c"), MapN(<< >>, <<"requests">>, <<Str("r")>>)>>)

\* spec: {template: {spec: {containers: ...}}}
Workload(containers) ==
  MapN(<< >>, <<"template">>,
       <<MapN(<< >>, <<"spec">>, <<MapN(<< >>, <<"containers">>, <<containers>>)>>)>>)

ShieldKinds == {NoField, Str("Deployment"), Str("Pod"), Str("Namespace")}
ShieldMetas ==
  {NoField, EmptyMap, MapN(<< >>, <<"namespace">>, <<Str("prod")>>),
   Str("m"), Str("x-namespace")}
ShieldSpecs ==
  {NoField, Str("s"), MapN(<< >>, <<"template">>, <<Str("t")>>), Workload(Str("x"))}
  \cup {Workload(SeqN(<< >>, items)) :
          items \in {<< >>, <<COk>>, <<CLimits>>, <<COk, CLimits>>, <<CNoLimits, CLimits>>,
                     <<CResScalar>>, <<COk, CResScalar>>, <<Str("c")>>}}

\* The map with the fields that are given, in the order kind, metadata, spec.
ShieldDoc(kind, meta, spec) ==
  MapN(<< >>,
       (IF kind = NoField THEN << >> ELSE <<"kind">>)
         \o (IF meta = NoField THEN << >> ELSE <<"metadata">>)
         \o (IF spec = NoField THEN << >> ELSE <<"spec">>),
       (IF kind = NoField THEN << >> ELSE <<kind>>)
         \o (IF meta = NoField THEN << >> ELSE <<meta>>)
         \o (IF spec = NoField THEN << >> ELSE <<spec>>))
ShieldDocs ==
  {ShieldDoc(kind, meta, spec) :
     kind \in ShieldKinds, meta \in ShieldMetas, spec \in ShieldSpecs}
  \cup {Str("text")}

InitShield ==
  /\ EngineInit
  /\ platform = TRUE
  /\ fs = [f \in Files |-> Absent]

StartProtect ==
  /\ pc = "idle"
  /\ \E doc \in ShieldDocs : cur' = [doc |-> doc]
  /\ pc' = "protect"
  /\ done' = << >>
  /\ UNCHANGED <<fs, backups, tmp, comment_map, orphans, found, queue, args, platform, faults,
               rewritten>>

\* protect(doc) returns or raises.
ProtectDoc ==
  /\ pc = "protect"
  /\ done' = <<[doc |-> cur.doc, out |-> Protect(cur.doc)]>>
  /\ pc' = "idle"
  /\ cur' = << >>
  /\ UNCHANGED <<fs, backups, tmp, comment_map, orphans, found, queue, args, platform, faults,
               rewritten>>

NextShield == StartProtect \/ ProtectDoc

SpecShield == InitShield /\ [][NextShield]_vars

----------------------------------------------------------------------------
\* Properties of audit_and_heal_file, over the reports of the run and the
\* facts kept with them.

Reports == {done[i] : i \in 1..Len(done)}

\* An identity was detected, at least one document was reconstructed and
\* every document passed validation.
SuccessCondition(g) == g.identity /\ g.ndocs > 0 /\ g.validation_passed
\* The success condition fails and at least one shard was extracted.
PartialCondition(g) == ~SuccessCondition(g) /\ g.nshards > 0
\* The trimmed text read differs from the trimmed export.
Modified(g) == g.path = "processed" /\ Strip(g.pre.lines) # Strip(g.final_yaml)
WriteAllowed(g) ==
  /\ ~g.dry_run
  /\ Modified(g)
  /\ SuccessCondition(g) \/ (PartialCondition(g) /\ g.force_write)

\* C1: a report has written = true only if dry_run is false, the content
\* is modified and the heal is a success or is partial with force_write;
\* in every other case the call creates no backup and the file keeps the
\* content it had before the call.
WritePolicy ==
  \A e \in Reports :
    /\ e.r.written => WriteAllowed(e.g)
    /\ ~WriteAllowed(e.g) => e.g.post = e.g.pre /\ e.g.post_backups = e.g.pre_backups

\* A partial heal written under force_write.
WritePolicyWitness ==
  \E e \in Reports : e.r.written /\ PartialCondition(e.g) /\ e.g.force_write

\* C2: whenever a report has written = true, the steps on the file were
\* read, backup copy, temp-file write, rename in that order, and
\* backup_created names a backup file holding the content before the write.
BackupPrecedesWrite ==
  \A e \in Reports :
    e.r.written =>
      /\ e.g.ops = <<"read", "copy", "tmpwrite", "replace">>
      /\ e.r.backup_created \in DOMAIN e.g.post_backups
      /\ e.g.post_backups[e.r.backup_created] = e.g.pre

AtomicWriteFaults == {"no-access", "write-failed", "replace-failed"}

\* C3: when the atomic write fails (no write permission on the directory,
\* a failed temp-file write or a failed rename) the file keeps its content,
\* no temp file remains, and the call returns a report with write_error,
\* written = false and success = false.
AtomicWriteFailure ==
  \A e \in Reports :
    e.g.fault \in AtomicWriteFaults =>
      /\ e.g.post = e.g.pre
      /\ e.g.post_tmp = Absent
      /\ e.r.status # "<raised>"
      /\ e.r.write_error /\ ~e.r.written /\ ~e.r.success

\* The rename failed after the temp file was written.
AtomicWriteFailureWitness ==
  \E e \in Reports : e.g.fault = "replace-failed" /\ "tmpwrite" \in {e.g.ops[i] : i \in DOMAIN e.g.ops}

\* C4: while a call with dry_run = true runs, no step changes the file,
\* creates a backup or creates a temp file, whatever force_write and strict.
DryRunFrame == [][args'.dry_run => UNCHANGED <<fs, backups, tmp>>]_vars

\* A dry run over a modified file with force_write set has returned.
DryRunWitness ==
  \E e \in Reports : e.g.dry_run /\ e.g.force_write /\ Modified(e.g) /\ e.r.status = "PREVIEW"

StatusAsStated == \A e \in Reports : e.r.status \in Statuses

ReturnedStatuses ==
  {"UNCHANGED", "PREVIEW", "HEALED", "PARTIAL", "FAILED", "FILE_NOT_FOUND", "HEAL_FAILED"}

\* C6: every status is one of UNCHANGED, PREVIEW, HEALED, PARTIAL, FAILED,
\* FILE_NOT_FOUND, HEAL_FAILED; HEAL_FAILED is the status of an exception
\* during a phase and FILE_NOT_FOUND that of a missing file.
StatusAsReturned ==
  \A e \in Reports :
    /\ e.r.status \in ReturnedStatuses
    /\ e.g.path = "error" <=> e.r.status = "HEAL_FAILED"
    /\ e.g.path = "missing" <=> e.r.status = "FILE_NOT_FOUND"

\* An exception after the lexer had extracted shards.
StatusAsReturnedWitness ==
  \E e \in Reports : e.r.status = "HEAL_FAILED" /\ e.g.nshards > 0

\* The files scan_directory found, as a set.
Candidates == {args.candidates[i] : i \in 1..Len(args.candidates)}

\* C7 as stated: when a batch has returned, every candidate file within
\* max_depth has exactly one report, whatever happened to the other files,
\* and no exception left the loop.
OneReportPerCandidate ==
  (pc = "idle" /\ args.batch) =>
    \A f \in Candidates :
      Depth(f) <= args.max_depth =>
        /\ Cardinality({i \in 1..Len(done) : done[i].r.file_path = f}) = 1
        /\ \A i \in 1..Len(done) : done[i].r.status # "<raised>"

\* C8 as stated: the comment map, the shards and the identity of a file's
\* Heal Context are those of a pipeline that has processed no other file.
NoCarryOver ==
  \A e \in Reports :
    e.g.path = "processed" =>
      /\ e.g.context.comment_map = Capture(NoComments, JoinSplit(e.g.pre.lines)).comment_map
      /\ e.g.context.shards = LexShard(e.g.pre.lines)
      /\ e.g.context.kind = ScanFrom([kind |-> None, api |-> None], e.g.pre.lines, 1).kind

\* No line of the text gives `key` a value.
NoLineFor(lines, key) ==
  \A i \in 1..Len(lines) : ~(lines[i].k = "data" /\ lines[i].key = key /\ HasValue(lines[i]))

\* C9: the identity a scan leaves is the identity of a scan of the same
\* text by a scanner that holds none, and it is None for kind (for
\* apiVersion) when the text has no kind line (no apiVersion line).
IdentityOfText ==
  \A e \in Reports :
    e.g.path = "processed" =>
      LET alone == ScanFrom([kind |-> None, api |-> None], e.g.pre.lines, 1)
      IN /\ e.g.context.kind = alone.kind
         /\ e.g.context.api_version = alone.api
         /\ NoLineFor(e.g.pre.lines, "kind") => e.g.context.kind = None
         /\ NoLineFor(e.g.pre.lines, "apiVersion") => e.g.context.api_version = None

\* A text without a kind line scanned after a text that had one.
IdentityOfTextWitness ==
  \E e \in Reports :
    /\ e.g.path = "processed"
    /\ e.g.found_before.kind # None
    /\ NoLineFor(e.g.pre.lines, "kind")
    /\ e.g.context.kind = None

\* C10: validate_reconstruction rejects a value that is not a map, and
\* rejects a map without apiVersion, kind or metadata with the diagnostic
\* that names a field the map lacks, whatever the catalog and strict.
TierOneRejection ==
  \A e \in Reports :
    /\ ~IsMap(e.doc) => ~e.verdict.valid /\ ~e.verdict.raised
    /\ (IsMap(e.doc) /\ \E k \in {"apiVersion", "kind", "metadata"} : ~HasKey(e.doc, k)) =>
         /\ ~e.verdict.valid /\ ~e.verdict.raised
         /\ e.verdict.code = "Missing required top-level field"
         /\ e.verdict.name \in {"apiVersion", "kind", "metadata"}
         /\ ~HasKey(e.doc, e.verdict.name)

\* A map that lacks only metadata, of a kind outside the catalog.
TierOneRejectionWitness ==
  \E e \in Reports :
    /\ IsMap(e.doc)
    /\ HasKey(e.doc, "apiVersion") /\ HasKey(e.doc, "kind") /\ ~HasKey(e.doc, "metadata")
    /\ Get(e.doc, "kind").v = "Widget"
    /\ ~e.verdict.valid

----------------------------------------------------------------------------
\* Healing what a heal has written.

\* KubeStructurer.full_healing_report(original, final, status)
\* ['lines_changed']: the lines that differ, position by position, up to
\* the length of the shorter text.
LinesChanged(original, final) ==
  Cardinality({i \in 1..(IF Len(original) < Len(final) THEN Len(original) ELSE Len(final)) :
                 original[i] # final[i]})

----------------------------------------------------------------------------
\* Deep validation (SpecVal).

\* The documents the catalog has a schema for.
OfKnownKind(e) ==
  /\ IsMap(e.doc)
  /\ \A k \in {"apiVersion", "kind", "metadata"} : HasKey(e.doc, k)
  /\ IsScalar(Get(e.doc, "kind"))
  /\ KnownKind(e.catalog, Get(e.doc, "kind").v)
SchemaOf(e) == KindSchema(e.catalog, Get(e.doc, "kind").v)

\* The path segment of element k of a sequence.
Indexed(k) == <<"[0].", "[1].", "[2].">>[k]

\* The paths of the required fields that are missing in doc, in the maps
\* under its object fields and in every map element of its array fields.
RECURSIVE MissingRequired(_, _, _)
MissingRequired(doc, schema, path) ==
  {path \o schema.required[i] :
     i \in {j \in 1..Len(schema.required) : ~HasKey(doc, schema.required[j])}}
  \cup UNION {
    LET key == doc.keys[i]
        value == doc.vals[i]
        info == FieldInfo(schema, key)
    IN IF ~HasField(schema, key) THEN {}
       ELSE IF info.type = "object" /\ IsMap(value)
            THEN MissingRequired(value, info, path \o key \o ".")
       ELSE IF info.type = "array" /\ IsSeq(value) /\ info.items # << >>
            THEN UNION {IF IsMap(value.items[k])
                        THEN MissingRequired(value.items[k], info.items[1],
                                             path \o key \o Indexed(k))
                        ELSE {} : k \in 1..Len(value.items)}
       ELSE {} : i \in 1..Len(doc.keys)}

\* C11: a document of a known kind that lacks a required field at any
\* level, nested objects and every map element of an array included, is
\* rejected.
RequiredAtEveryLevel ==
  \A e \in Reports :
    (OfKnownKind(e) /\ MissingRequired(e.doc, SchemaOf(e), "") # {}) => ~e.verdict.valid

\* The keys the catalog does not declare, in doc, in the maps under its
\* object fields and in every map element of its array fields, as paths.
RECURSIVE UnknownKeys(_, _, _)
UnknownKeys(doc, schema, path) ==
  UNION {
    LET key == doc.keys[i]
        value == doc.vals[i]
        info == FieldInfo(schema, key)
    IN IF ~HasField(schema, key) THEN {path \o key}
       ELSE IF info.type = "object" /\ IsMap(value)
            THEN UnknownKeys(value, info, path \o key \o ".")
       ELSE IF info.type = "array" /\ IsSeq(value) /\ info.items # << >>
            THEN UNION {IF IsMap(value.items[k])
                        THEN UnknownKeys(value.items[k], info.items[1],
                                         path \o key \o Indexed(k))
                        ELSE {} : k \in 1..Len(value.items)}
       ELSE {} : i \in 1..Len(doc.keys)}

\* The fields whose value has not the declared shape, over the levels the
\* validator descends to (the maps under object fields, the first element
\* of an array), as [name, code].
RECURSIVE ShapeMismatches(_, _, _)
ShapeMismatches(doc, schema, path) ==
  UNION {
    LET key == doc.keys[i]
        value == doc.vals[i]
        info == FieldInfo(schema, key)
    IN IF ~HasField(schema, key) THEN {}
       ELSE IF info.type = "object"
            THEN IF ~IsMap(value)
                 THEN {[name |-> path \o key, code |-> "must be a map/object"]}
                 ELSE ShapeMismatches(value, info, path \o key \o ".")
       ELSE IF info.type = "array"
            THEN IF ~IsSeq(value)
                 THEN {[name |-> path \o key, code |-> "must be a list/sequence"]}
                 ELSE IF info.items # << >> /\ value.items # << >> /\ IsMap(value.items[1])
                      THEN ShapeMismatches(value.items[1], info.items[1],
                                           path \o key \o "[0].")
                      ELSE {}
       ELSE {} : i \in 1..Len(doc.keys)}

ShapeCodes == {"must be a map/object", "must be a list/sequence"}

UnknownKeyPolicy ==
  \A e \in Reports :
    (/\ OfKnownKind(e) /\ ~e.strict /\ e.verdict.valid
     /\ UnknownKeys(e.doc, SchemaOf(e), "") # {}) =>
      /\ ~e.in_strict.valid
      /\ e.in_strict.code = "Strict Mode Violation: Unknown field"
      /\ e.in_strict.name \in UnknownKeys(e.doc, SchemaOf(e), "")

\* C14: a document rejected with strict=false is rejected with strict=true,
\* and a call that raises raises in both modes, whatever the catalog.
StrictMonotone ==
  \A e \in Reports :
    ~e.strict =>
      /\ ~e.verdict.valid => ~e.in_strict.valid
      /\ e.verdict.raised = e.in_strict.raised

\* A document with two defects, rejected in both modes for different ones.
StrictMonotoneWitness ==
  \E e \in Reports :
    /\ ~e.strict
    /\ ~e.verdict.valid /\ e.verdict.code = "must be a map/object"
    /\ ~e.in_strict.valid /\ e.in_strict.code = "Strict Mode Violation: Unknown field"

\* C15: a map with apiVersion, kind and metadata whose kind is not a kind
\* of the catalog is accepted with the warning, in both modes.
UnknownKindAccepted ==
  \A e \in Reports :
    (/\ IsMap(e.doc)
     /\ \A k \in {"apiVersion", "kind", "metadata"} : HasKey(e.doc, k)
     /\ ~OfKnownKind(e)) =>
      \A v \in {e.verdict, e.in_strict} :
        /\ ~v.raised /\ v.valid
        /\ v.code = "Warning: Kind is outside local catalog"

----------------------------------------------------------------------------
\* KubeExporter._get_sorted_map on its own: a caller hands it a tree of
\* maps, scalars and sequences of maps and scalars.

SortKeys == {"kind", "apiVersion", "zeta", "alpha"}
MaxKeys == 4

\* The orders in which a map can hold up to MaxKeys of the keys.
KeyOrders ==
  UNION {{q \in [1..n -> SortKeys] : \A i, j \in 1..n : q[i] = q[j] => i = j} :
         n \in 1..MaxKeys}

Reverse(q) == [i \in 1..Len(q) |-> q[Len(q) + 1 - i]]

\* The map with these keys in this order, each with its own name as value.
Flat(ks) == MapN(<< >>, ks, [i \in 1..Len(ks) |-> Str(ks[i])])

SortDocs ==
  {Flat(ks) : ks \in KeyOrders}
  \cup {MapN(<< >>, <<"zeta", "spec">>, <<Str("z"), Flat(ks)>>) : ks \in KeyOrders}
  \cup {MapN(<< >>, <<"items", "kind">>,
              <<SeqN(<< >>, <<Flat(ks), Str("s"), Flat(Reverse(ks))>>), Str("List")>>) :
          ks \in KeyOrders}

InitSort ==
  /\ EngineInit
  /\ platform = TRUE
  /\ fs = [f \in Files |-> Absent]

StartSort ==
  /\ pc = "idle"
  /\ \E doc \in SortDocs : cur' = [doc |-> doc]
  /\ pc' = "sort"
  /\ done' = << >>
  /\ UNCHANGED <<fs, backups, tmp, comment_map, orphans, found, queue, args, platform, faults,
               rewritten>>

\* _get_sorted_map(doc) returns.
SortDoc ==
  /\ pc = "sort"
  /\ done' = <<[doc |-> cur.doc, out |-> GetSortedMap(cur.doc)]>>
  /\ pc' = "idle"
  /\ cur' = << >>
  /\ UNCHANGED <<fs, backups, tmp, comment_map, orphans, found, queue, args, platform, faults,
               rewritten>>

NextSort == StartSort \/ SortDoc

SpecSort == InitSort /\ [][NextSort]_vars

\* out is data with the keys of every map in the stated order: a
\* permutation of the map's keys, the preferred keys first in the preferred
\* order, the others after them in the order they had; the elements of a
\* sequence in the order they had; the scalars as they were.
RECURSIVE KeyOrdered(_, _)
KeyOrdered(data, out) ==
  CASE IsMap(data) ->
         /\ IsMap(out)
         /\ Len(out.keys) = Len(data.keys)
         /\ {out.keys[i] : i \in 1..Len(out.keys)} = {data.keys[i] : i \in 1..Len(data.keys)}
         /\ \A i, j \in 1..Len(out.keys) :
              i < j =>
                LET a == out.keys[i]
                    b == out.keys[j]
                IN /\ a # b
                   /\ InSeq(preferred_order, b) =>
                        /\ InSeq(preferred_order, a)
                        /\ IndexIn(preferred_order, a) < IndexIn(preferred_order, b)
                   /\ (~InSeq(preferred_order, a) /\ ~InSeq(preferred_order, b)) =>
                        IndexIn(data.keys, a) < IndexIn(data.keys, b)
         /\ \A i \in 1..Len(data.keys) :
              KeyOrdered(data.vals[i], Get(out, data.keys[i]))
    [] IsSeq(data) ->
         /\ IsSeq(out)
         /\ Len(out.items) = Len(data.items)
         /\ \A i \in 1..Len(data.items) : KeyOrdered(data.items[i], out.items[i])
    [] OTHER -> out = data

\* C20: the map _get_sorted_map returns has, at the top level, in nested
\* maps and in maps that are elements of sequences, the keys of the input
\* map, preferred keys first in the preferred order and the other keys
\* after them in their original relative order; sequences keep the order
\* of their elements.
ExportKeyOrder ==
  \A e \in Reports : KeyOrdered(e.doc, e.out)

\* Two maps in a sequence, their keys out of order in different ways.
ExportKeyOrderWitness ==
  \E e \in Reports :
    /\ HasKey(e.doc, "items")
    /\ e.out.keys = <<"kind", "items">>
    /\ Get(e.doc, "items").items[1].keys = <<"zeta", "kind", "alpha", "apiVersion">>
    /\ Get(e.out, "items").items[1].keys = <<"apiVersion", "kind", "zeta", "alpha">>
    /\ Get(e.out, "items").items[2] = Str("s")
    /\ Get(e.out, "items").items[3].keys = <<"apiVersion", "kind", "alpha", "zeta">>

----------------------------------------------------------------------------
\* The shield (SpecShield).

\* C16: protect returns for every reconstructed document, whatever the
\* shape of metadata, spec, containers and resources.
ProtectNeverRaises ==
  \A e \in Reports : ~e.out.raised

\* The number of entries of logs equal to msg.
CountOf(logs, msg) == Cardinality({i \in 1..Len(logs) : logs[i] = msg})

\* A map document with a kind that is not cluster-scoped.
Namespaced(doc) ==
  /\ IsMap(doc)
  /\ HasKey(doc, "kind") /\ TruthyNode(Get(doc, "kind"))
  /\ Get(doc, "kind").v \notin cluster_scoped
HadNamespace(doc) ==
  /\ HasKey(doc, "metadata") /\ IsMap(Get(doc, "metadata"))
  /\ HasKey(Get(doc, "metadata"), "namespace")

\* C17: protect on a map document of a kind that is not cluster-scoped
\* returns a document in which metadata.namespace exists: with the value it
\* had and no namespace log line, or else with the default and exactly one
\* namespace log line.  For a cluster-scoped kind protect returns the
\* document unchanged without a log line.
NamespaceEnsured ==
  \A e \in Reports :
    /\ Namespaced(e.doc) =>
         /\ ~e.out.raised
         /\ HasKey(e.out.doc, "metadata") /\ IsMap(Get(e.out.doc, "metadata"))
         /\ HasKey(Get(e.out.doc, "metadata"), "namespace")
         /\ IF HadNamespace(e.doc)
            THEN /\ Get(Get(e.out.doc, "metadata"), "namespace")
                      = Get(Get(e.doc, "metadata"), "namespace")
                 /\ CountOf(e.out.logs, NamespaceMsg) = 0
            ELSE /\ Get(Get(e.out.doc, "metadata"), "namespace") = Str(DefaultNamespace)
                 /\ CountOf(e.out.logs, NamespaceMsg) = 1
    /\ (IsMap(e.doc) /\ HasKey(e.doc, "kind") /\ Get(e.doc, "kind").v \in cluster_scoped) =>
         /\ ~e.out.raised
         /\ e.out.doc = e.doc
         /\ e.out.logs = << >>

\* spec.template.spec.containers of a document that has it.
ContainersOf(doc) == Get(Get(Get(Get(doc, "spec"), "template"), "spec"), "containers")

\* A workload with a list of containers under spec.template.spec.containers.
HasContainers(doc) ==
  /\ IsMap(doc)
  /\ HasKey(doc, "kind") /\ Get(doc, "kind").v \in workload_kinds
  /\ HasKey(doc, "spec") /\ IsMap(Get(doc, "spec"))
  /\ HasKey(Get(doc, "spec"), "template") /\ IsMap(Get(Get(doc, "spec"), "template"))
  /\ HasKey(Get(Get(doc, "spec"), "template"), "spec")
  /\ IsMap(Get(Get(Get(doc, "spec"), "template"), "spec"))
  /\ HasKey(Get(Get(Get(doc, "spec"), "template"), "spec"), "containers")
  /\ IsSeq(ContainersOf(doc))
HasLimits(c) ==
  /\ IsMap(c)
  /\ HasKey(c, "resources") /\ IsMap(Get(c, "resources"))
  /\ HasKey(Get(c, "resources"), "limits")

\* C18: protect on a workload returns a document in which every container
\* under spec.template.spec.containers has resources.limits, the containers
\* that had limits are unchanged, and the limits log line is there once if
\* a container had none and not at all otherwise; for a workload without
\* namespace and with a container without limits the log is the namespace
\* line, then the limits line.
LimitsInjected ==
  \A e \in Reports :
    HasContainers(e.doc) =>
      /\ ~e.out.raised
      /\ LET before == ContainersOf(e.doc).items
             after == ContainersOf(e.out.doc).items
             lacking == {i \in 1..Len(before) : ~HasLimits(before[i])}
         IN /\ Len(after) = Len(before)
            /\ \A i \in 1..Len(after) :
                 /\ HasLimits(after[i])
                 /\ i \notin lacking => after[i] = before[i]
            /\ CountOf(e.out.logs, LimitsMsg) = (IF lacking = {} THEN 0 ELSE 1)
            /\ (lacking # {} /\ ~HadNamespace(e.doc)) =>
                 e.out.logs = <<NamespaceMsg, LimitsMsg>>


----------------------------------------------------------------------------
\* The separators of export (SpecExport): export applied to lists of
\* documents, empty ones among them.

MaxDocs == 3

ExportDocs ==
  {EmptyMap, Flat(<<"kind">>), Flat(<<"alpha", "kind">>),
   MapN(<< >>, <<"spec">>, <<Flat(<<"zeta">>)>>)}

DocLists == UNION {[1..n -> ExportDocs] : n \in 0..MaxDocs}

InitExport ==
  /\ EngineInit
  /\ platform = TRUE
  /\ fs = [f \in Files |-> Absent]

StartExport ==
  /\ pc = "idle"
  /\ \E docs \in DocLists : cur' = [docs |-> docs]
  /\ pc' = "export"
  /\ done' = << >>
  /\ UNCHANGED <<fs, backups, tmp, comment_map, orphans, found, queue, args, platform, faults,
               rewritten>>

\* export(docs, context) returns.
ExportList ==
  /\ pc = "export"
  /\ done' = <<[docs |-> cur.docs, out |-> Export(cur.docs)]>>
  /\ pc' = "idle"
  /\ cur' = << >>
  /\ UNCHANGED <<fs, backups, tmp, comment_map, orphans, found, queue, args, platform, faults,
               rewritten>>

NextExport == StartExport \/ ExportList

SpecExport == InitExport /\ [][NextExport]_vars

\* The documents of the list that export emits: the non-empty ones.
Emitted(docs) == {i \in 1..Len(docs) : TruthyNode(docs[i])}

\* The positions of the separator lines of a text.
Separators(out) == {i \in 1..Len(out) : out[i] = Sep}

\* C21: for any list of documents the output of export does not start with
\* a separator and holds exactly (number of emitted documents - 1)
\* separators (none when nothing is emitted), also when some documents of
\* the list are empty and skipped.
SeparatorsBetweenEmitted ==
  \A e \in Reports :
    /\ e.out # << >> => e.out[1] # Sep
    /\ Cardinality(Separators(e.out)) =
         IF Emitted(e.docs) = {} THEN 0 ELSE Cardinality(Emitted(e.docs)) - 1

----------------------------------------------------------------------------
\* healing/lexer.py, character by character (SpecLexer).  A line is the
\* sequence of its characters; a run of letters that the patterns of
\* repair_line look for ("image", "http", "https") is one element, and so
\* every element of Letters begins and ends with a letter.  The lines hold
\* no backslash.

Letters == {"k", "x", "image", "http", "https"}
Digits == {"8"}
IsAlpha(c) == c \in Letters
IsSpace(c) == c \in {" ", "\t"}

\* Python's None for an optional string of characters.
NoChars == <<None>>

\* str.lstrip(), str.rstrip(), str.strip().
RECURSIVE LStripChars(_)
LStripChars(s) ==
  IF s # << >> /\ IsSpace(Head(s)) THEN LStripChars(Tail(s)) ELSE s
RECURSIVE RStripChars(_)
RStripChars(s) ==
  IF s # << >> /\ IsSpace(s[Len(s)]) THEN RStripChars(SubSeq(s, 1, Len(s) - 1)) ELSE s
StripChars(s) == LStripChars(RStripChars(s))

\* line.replace('\t', '  ')
RECURSIVE ExpandTabs(_)
ExpandTabs(s) ==
  IF s = << >> THEN s
  ELSE (IF Head(s) = "\t" THEN <<" ", " ">> ELSE <<Head(s)>>) \o ExpandTabs(Tail(s))

\* c in s
HasChar(s, c) == \E i \in 1..Len(s) : s[i] = c

\* KubeLexer._find_comment_split from position i on, inside double (dq)
\* or single (sq) quotes: the position of the '#' that starts the comment,
\* 0 for the -1 of the code.
RECURSIVE FindCommentSplit(_, _, _, _)
FindCommentSplit(text, i, dq, sq) ==
  IF i > Len(text) THEN 0
  ELSE IF text[i] = "\"" /\ ~sq THEN FindCommentSplit(text, i + 1, ~dq, sq)
  ELSE IF text[i] = "'" /\ ~dq THEN FindCommentSplit(text, i + 1, dq, ~sq)
  ELSE IF text[i] = "#" /\ ~dq /\ ~sq /\ (i = 1 \/ IsSpace(text[i - 1])) THEN i
  ELSE FindCommentSplit(text, i + 1, dq, sq)

\* str.lstrip('# ')
RECURSIVE LStripHashes(_)
LStripHashes(s) ==
  IF s # << >> /\ Head(s) \in {"#", " "} THEN LStripHashes(Tail(s)) ELSE s

\* re.search(r'image[:\s]*[a-zA-Z0-9/]', code_part)
ImagePattern(code) ==
  \E i \in 1..Len(code) : \E j \in (i + 1)..Len(code) :
    /\ code[i] = "image"
    /\ \A m \in (i + 1)..(j - 1) : code[m] \in {":", " "}
    /\ code[j] \in Letters \cup Digits \cup {"/"}

\* re.sub(r'(?<!http)(?<!https):(?!\s)([a-zA-Z])', r': \1', code_part) from
\* position i on.
RECURSIVE SubColons(_, _)
SubColons(code, i) ==
  IF i > Len(code) THEN << >>
  ELSE IF /\ code[i] = ":"
          /\ i < Len(code) /\ IsAlpha(code[i + 1])
          /\ (i = 1 \/ code[i - 1] \notin {"http", "https"})
       THEN <<":", " ">> \o SubColons(code, i + 1)
       ELSE <<code[i]>> \o SubColons(code, i + 1)

\* Step 4 of repair_line on the left-stripped code part: the stuck dash,
\* then the stuck colons.
FixDash(code) ==
  IF Len(code) > 1 /\ code[1] = "-" /\ IsAlpha(code[2])
  THEN <<"-", " ">> \o Tail(code) ELSE code
SurgicalFixes(code) ==
  IF ~ImagePattern(FixDash(code)) THEN SubColons(FixDash(code), 1) ELSE FixDash(code)

\* any(marker in code_part for marker in ['|', '>', '|-', '>-'])
HasMarker(code) == HasChar(code, "|") \/ HasChar(code, ">")

\* What repair_line returns and leaves in the lexer.
Repaired(in_block, block_indent, indent, code, comment) ==
  [in_block |-> in_block, block_indent |-> block_indent,
   indent |-> indent, code |-> code, comment |-> comment]

\* Steps 3 to 5 of repair_line on raw_line (tabs expanded, right-stripped)
\* with its indent, in a lexer whose block_indent is n.
RepairCode(n, indent, raw_line, split) ==
  Repaired(HasMarker(SurgicalFixes(LStripChars(
             IF split # 0 THEN SubSeq(raw_line, 1, split - 1) ELSE raw_line))),
           IF HasMarker(SurgicalFixes(LStripChars(
                IF split # 0 THEN SubSeq(raw_line, 1, split - 1) ELSE raw_line)))
           THEN indent ELSE n,
           indent,
           SurgicalFixes(LStripChars(
             IF split # 0 THEN SubSeq(raw_line, 1, split - 1) ELSE raw_line)),
           IF split # 0 THEN LStripHashes(SubSeq(raw_line, split, Len(raw_line)))
           ELSE NoChars)

\* The test of step 2 that ends the block: indent <= self.block_indent and
\* (':' in content or content.startswith('-')).
EndsBlock(n, indent, content) ==
  indent <= n /\ (HasChar(content, ":") \/ Head(content) = "-")

\* KubeLexer.repair_line(line) in a lexer with state lx = [in_block,
\* block_indent].
RepairRaw(lx, raw_line, content) ==
  IF content = << >> THEN Repaired(lx.in_block, lx.block_indent, 0, << >>, << >>)
  ELSE IF lx.in_block /\ ~EndsBlock(lx.block_indent, Len(raw_line) - Len(content), content)
  THEN Repaired(TRUE, lx.block_indent, Len(raw_line) - Len(content), content, << >>)
  ELSE RepairCode(lx.block_indent, Len(raw_line) - Len(content), raw_line,
                  FindCommentSplit(raw_line, 1, FALSE, FALSE))
RepairLine(lx, line) ==
  RepairRaw(lx, RStripChars(ExpandTabs(line)), LStripChars(RStripChars(ExpandTabs(line))))

\* The first position of c in s (c is in s).
RECURSIVE FirstChar(_, _, _)
FirstChar(s, c, i) == IF s[i] = c THEN i ELSE FirstChar(s, c, i + 1)

\* KubeLexer._extract_semantics on a stripped code part without its dash.
KeyValue(clean, is_list) ==
  IF HasChar(clean, ":")
  THEN [key |-> StripChars(SubSeq(clean, 1, FirstChar(clean, ":", 1) - 1)),
        value |-> IF StripChars(SubSeq(clean, FirstChar(clean, ":", 1) + 1, Len(clean))) = << >>
                  THEN NoChars
                  ELSE StripChars(SubSeq(clean, FirstChar(clean, ":", 1) + 1, Len(clean))),
        is_list |-> is_list]
  ELSE [key |-> << >>, value |-> clean, is_list |-> is_list]

\* KubeLexer._extract_semantics(code_part)
SemanticsOf(code) ==
  IF StripChars(code) = << >> THEN [key |-> << >>, value |-> NoChars, is_list |-> FALSE]
  ELSE IF Head(StripChars(code)) = "-"
  THEN KeyValue(LStripChars(Tail(StripChars(code))), TRUE)
  ELSE KeyValue(StripChars(code), FALSE)

\* The flush-left recovery of shard() on line i of lines.
Spaces(n) == [j \in 1..n |-> " "]
WorkingLine(lines, i) ==
  IF /\ i > 1
     /\ RStripChars(lines[i - 1]) # << >>
     /\ RStripChars(lines[i - 1])[Len(RStripChars(lines[i - 1]))] = ":"
     /\ lines[i] # << >> /\ Head(lines[i]) = "-"
  THEN Spaces(Len(lines[i - 1]) - Len(LStripChars(lines[i - 1])) + 2) \o lines[i]
  ELSE lines[i]

\* The Shard of line i, from what repair_line returned for it.
ShardOf(lines, i, r) ==
  [line_no |-> i, indent |-> r.indent, key |-> SemanticsOf(r.code).key,
   value |-> SemanticsOf(r.code).value, is_list_item |-> SemanticsOf(r.code).is_list,
   comment |-> r.comment, raw_line |-> lines[i]]

\* The lines of the texts.
LexLines ==
  {<<"k", ":", " ", "|">>,
   <<" ", " ", "x", ":", "x", " ", "#", "x">>,
   <<"k", ":", "x">>,
   <<"k", ":", "8">>,
   <<"-", "x">>,
   <<"-", " ", "k", ":", " ", "x", " ", ">", " ", "x">>,
   <<" ", " ", "k", ":", "x">>,
   <<"image", ":", "x", ":", "8">>,
   <<"image", "k", ":", "x">>,
   <<"k", ":", "http", ":", "/", "/", "x">>,
   <<"x", " ", "x">>,
   <<"k", ":", " ", "\"", "x", " ", "#", "x", "\"", " ", "#", " ", "x">>,
   <<"\t", "k", ":", "x">>,
   <<"k", ":">>,
   << >>}

MaxLexLines == 3

\* KubeLexer.__init__; cur holds the lexer (in_block, block_indent) and the
\* locals of shard(): lines, i, shards.  The text is any sequence of up to
\* MaxLexLines of the lines; the loop reads it in order and looks back one
\* line, so a line is chosen when the loop comes to it.  steps keeps, for
\* each line of the call, the block state before the line and what
\* repair_line returned.
InitLexer ==
  /\ EngineInit
  /\ platform = TRUE
  /\ fs = [f \in Files |-> Absent]

\* shard(raw_yaml) up to its loop.
StartShard ==
  /\ pc = "idle"
  /\ cur' = [in_block |-> FALSE,
             block_indent |-> IF cur = << >> THEN 0 ELSE cur.block_indent,
             lines |-> << >>, i |-> 1, shards |-> << >>, steps |-> << >>]
  /\ pc' = "lex"
  /\ done' = << >>
  /\ UNCHANGED <<fs, backups, tmp, comment_map, orphans, found, queue, args, platform, faults,
               rewritten>>

\* One iteration of the loop of shard().
ShardLine ==
  /\ pc = "lex"
  /\ cur.i <= MaxLexLines
  /\ \E line \in LexLines :
     \E lines \in {Append(cur.lines, line)} :
     \E r \in {RepairLine(cur, WorkingLine(lines, cur.i))} :
       cur' = [in_block |-> r.in_block,
               block_indent |-> r.block_indent,
               lines |-> lines,
               i |-> cur.i + 1,
               shards |-> Append(cur.shards, ShardOf(lines, cur.i, r)),
               steps |-> Append(cur.steps, [was_in_block |-> cur.in_block,
                                            was_indent |-> cur.block_indent,
                                            line |-> WorkingLine(lines, cur.i),
                                            r |-> r])]
  /\ UNCHANGED <<fs, backups, tmp, comment_map, orphans, found, pc, queue, args, done, platform,
               faults, rewritten>>

\* shard() returns; the lexer keeps its block state.
ReturnShards ==
  /\ pc = "lex"
  /\ done' = <<[text |-> cur.lines, shards |-> cur.shards]>>
  /\ pc' = "idle"
  /\ UNCHANGED <<fs, backups, tmp, comment_map, orphans, found, queue, args, cur, platform,
               faults, rewritten>>

NextLexer == StartShard \/ ShardLine \/ ReturnShards

SpecLexer == InitLexer /\ [][NextLexer]_vars

\* The steps of the current call of shard().
Steps == IF cur = << >> THEN {} ELSE {cur.steps[j] : j \in 1..Len(cur.steps)}

\* The line of step s is not blank.
NonBlank(s) == StripChars(s.line) # << >>

\* Step s met a line that looks like a key or a list item at or below the
\* indent of the block.
LeavesBlock(s) ==
  /\ NonBlank(s)
  /\ s.r.indent <= s.was_indent
  /\ (HasChar(StripChars(s.line), ":") \/ Head(StripChars(s.line)) = "-")

\* Step s was taken in block state and did not leave it.
Protected(s) == s.was_in_block /\ NonBlank(s) /\ ~LeavesBlock(s)

\* The code part ends with the marker of a literal or folded block scalar:
\* |, >, |- or >- after a space.
EndsWithMarker(code) ==
  \/ /\ Len(code) >= 2
     /\ code[Len(code)] \in {"|", ">"} /\ code[Len(code) - 1] = " "
  \/ /\ Len(code) >= 3
     /\ code[Len(code)] = "-" /\ code[Len(code) - 1] \in {"|", ">"}
     /\ code[Len(code) - 2] = " "

\* C22: block protection over the lines of a call of shard(): the call
\* starts outside block state; a line carrying a block marker, met outside
\* block state or leaving it, enters block state at its indent, and a line
\* without a marker never enters it; in block state every line is returned
\* with its content unchanged, without comment, until a line at or below
\* the block's indent that looks like a key or a list item, which is
\* repaired as outside block state.
BlockProtection ==
  /\ cur # << >> /\ cur.steps # << >> => ~cur.steps[1].was_in_block
  /\ \A s \in Steps :
       /\ Protected(s) =>
            /\ s.r.code = StripChars(s.line)
            /\ s.r.comment = << >>
            /\ s.r.in_block
       /\ (NonBlank(s) /\ ~Protected(s)) =>
            /\ s.r.in_block <=> EndsWithMarker(RStripChars(s.r.code))
            /\ s.r.in_block => s.r.block_indent = s.r.indent
            /\ s.r = RepairLine([in_block |-> FALSE, block_indent |-> s.was_indent], s.line)

\* The code part of a line as it is written: without the comment and the
\* indent.
CodePart(raw_line) ==
  LStripChars(IF FindCommentSplit(raw_line, 1, FALSE, FALSE) # 0
              THEN SubSeq(raw_line, 1, FindCommentSplit(raw_line, 1, FALSE, FALSE) - 1)
              ELSE raw_line)

\* The colons of a code part that stick to a letter or a digit and do not
\* follow http or https.
StuckColons(code) ==
  {i \in 1..(Len(code) - 1) :
     /\ code[i] = ":"
     /\ code[i + 1] \in Letters \cup Digits
     /\ (i = 1 \/ code[i - 1] \notin {"http", "https"})}

\* The code part holds an image reference: image, a colon, then a letter,
\* a digit or a slash.
ImageReference(code) ==
  \E i \in 1..(Len(code) - 2) :
    /\ code[i] = "image" /\ (i = 1 \/ ~IsAlpha(code[i - 1]))
    /\ code[i + 1] = ":"
    /\ code[i + 2] \in Letters \cup Digits \cup {"/"}

\* C23: outside block state the code part repair_line returns has a space
\* after every colon that was followed by a letter or a digit, unless the
\* line holds an image reference or the colon follows http or https; the
\* code part of a line that needs no repair is returned as it was.
StuckColonRepaired ==
  \A s \in Steps :
    (NonBlank(s) /\ ~Protected(s)) =>
      /\ ~ImageReference(s.r.code) => StuckColons(s.r.code) = {}
      /\ ( /\ StuckColons(CodePart(RStripChars(ExpandTabs(s.line)))) = {}
             \/ ImageReference(CodePart(RStripChars(ExpandTabs(s.line))))
           /\ FixDash(CodePart(RStripChars(ExpandTabs(s.line))))
                = CodePart(RStripChars(ExpandTabs(s.line))) )
         => s.r.code = CodePart(RStripChars(ExpandTabs(s.line)))

----------------------------------------------------------------------------
\* The comments of a text (SpecShadow): phases 1 and 2 of the pipeline on
\* a text, with a shadow that may have captured another text before.

ShadowLines ==
  {Blank, Cm(0, "a"), Cm(2, "b"), KV(0, "k", "v"), KVc(2, "k", "v", "c"), Sep}

MaxShadowLines == 4

ShadowTexts == UNION {[1..n -> ShadowLines] : n \in 1..MaxShadowLines}

\* The comment maps of a shadow before the call: the one of __init__, and
\* those two earlier captures leave.
EarlierMaps ==
  {NoComments,
   Capture(NoComments, <<Cm(0, "a"), KV(0, "k", "v")>>).comment_map,
   Capture(NoComments, <<KVc(2, "k", "v", "c"), Cm(2, "b"), KV(0, "k", "v")>>).comment_map}

InitShadow ==
  /\ backups = << >>
  /\ tmp = [s \in {Stem(f) : f \in Files} |-> Absent]
  /\ fs = [f \in Files |-> Absent]
  /\ comment_map \in EarlierMaps
  /\ orphans = << >>
  /\ found = [kind |-> None, api |-> None]
  /\ pc = "capture"
  /\ queue = << >>
  /\ args = [dry_run |-> TRUE, force_write |-> FALSE, strict |-> FALSE,
             max_depth |-> 0, batch |-> FALSE, candidates |-> << >>]
  /\ cur \in {[text |-> t] : t \in ShadowTexts}
  /\ done = << >>
  /\ faults = 0
  /\ rewritten = {}
  /\ platform = TRUE

\* shards = lexer.shard(text); shadow.capture("\n".join(raw lines)).
CaptureText ==
  /\ pc = "capture"
  /\ \E shards \in {LexShard(cur.text)} :
     \E lines \in {JoinSplit([i \in 1..Len(shards) |-> shards[i].raw_line])} :
     \E out \in {Capture(comment_map, lines)} :
       /\ comment_map' = out.comment_map
       /\ orphans' = out.orphans
       /\ done' = <<[lines |-> lines, shards |-> shards, map_before |-> comment_map,
                     comment_map |-> out.comment_map, orphans |-> out.orphans]>>
  /\ pc' = "captured"
  /\ UNCHANGED <<fs, backups, tmp, found, queue, args, cur, platform, faults, rewritten>>

NextShadow == CaptureText

SpecShadow == InitShadow /\ [][NextShadow]_vars

\* Line j is a full-line comment; line i is neither blank nor a comment.
IsComment(lines, j) == lines[j].k = "comment"
IsDataLine(lines, i) == lines[i].k \notin {"blank", "comment"}

\* The number of the first data line after line j, 0 when there is none.
NextData(lines, j) ==
  IF \E i \in (j + 1)..Len(lines) : IsDataLine(lines, i)
  THEN CHOOSE i \in (j + 1)..Len(lines) :
         /\ IsDataLine(lines, i)
         /\ \A m \in (j + 1)..(i - 1) : ~IsDataLine(lines, m)
  ELSE 0

\* The comments whose next data line is n (n = 0: those followed by none).
CommentsFor(lines, n) ==
  {j \in 1..Len(lines) : IsComment(lines, j) /\ NextData(lines, j) = n}

\* The place of comment j among the comments with the same next data line.
Rank(lines, j) ==
  Cardinality({m \in CommentsFor(lines, NextData(lines, j)) : m <= j})

\* C24: capture puts every full-line comment in exactly one place: the
\* above-comments of the next data line, blank lines in between or not, in
\* source order and under the number the shard of that line has, or the
\* orphans when no data line follows; the above-comments and the orphans
\* hold nothing else, and the entry of a line without comments is the one
\* this capture wrote for its inline comment or the one it had before.
CommentsPlacedOnce ==
  \A e \in Reports :
    /\ Len(e.orphans) = Cardinality(CommentsFor(e.lines, 0))
    /\ \A j \in 1..Len(e.lines) :
         IsComment(e.lines, j) =>
           IF NextData(e.lines, j) = 0
           THEN e.orphans[Rank(e.lines, j)] = e.lines[j]
           ELSE /\ NextData(e.lines, j) \in DOMAIN e.comment_map
                /\ e.comment_map[NextData(e.lines, j)].above_comments[Rank(e.lines, j)]
                     = e.lines[j]
                /\ e.shards[NextData(e.lines, j)].line_no = NextData(e.lines, j)
                /\ e.shards[NextData(e.lines, j)].raw_line = e.lines[NextData(e.lines, j)]
    /\ \A n \in 1..Len(e.lines) :
         IsDataLine(e.lines, n) =>
           IF CommentsFor(e.lines, n) # {} \/ e.lines[n].inline # ""
           THEN /\ n \in DOMAIN e.comment_map
                /\ Len(e.comment_map[n].above_comments) = Cardinality(CommentsFor(e.lines, n))
           ELSE IF n \in DOMAIN e.map_before
                THEN n \in DOMAIN e.comment_map /\ e.comment_map[n] = e.map_before[n]
                ELSE n \notin DOMAIN e.comment_map

\* Two comments with a blank line between them above the data line of
\* line 4, captured by a shadow that held entries of another text.
CommentsPlacedOnceWitness ==
  \E e \in Reports :
    /\ e.lines = <<Cm(0, "a"), Blank, Cm(2, "b"), KV(0, "k", "v")>>
    /\ e.map_before # NoComments
    /\ e.comment_map[4].above_comments = <<Cm(0, "a"), Cm(2, "b")>>

----------------------------------------------------------------------------
\* The identity of a text (SpecScan): scan applied to texts with several
\* kind and apiVersion lines, by a scanner that may hold an identity.

ScanLines ==
  {KV(0, "kind", "Pod"), KV(2, "kind", "Role"), KVq(0, "kind", "\"", "Svc"),
   KVc(0, "kind", "Pod", "c"), KV(0, "kind", ""),
   KV(0, "apiVersion", "v1"), KV(2, "apiVersion", "v2"), KV(0, "roleRef", ""), Sep}

MaxScanLines == 3

ScanTexts == UNION {[1..n -> ScanLines] : n \in 1..MaxScanLines}

InitScan ==
  /\ backups = << >>
  /\ tmp = [s \in {Stem(f) : f \in Files} |-> Absent]
  /\ fs = [f \in Files |-> Absent]
  /\ comment_map = NoComments
  /\ orphans = << >>
  /\ found \in {[kind |-> None, api |-> None], [kind |-> "Job", api |-> "batch/v1"]}
  /\ pc = "scan"
  /\ queue = << >>
  /\ args = [dry_run |-> TRUE, force_write |-> FALSE, strict |-> FALSE,
             max_depth |-> 0, batch |-> FALSE, candidates |-> << >>]
  /\ cur \in {[text |-> t] : t \in ScanTexts}
  /\ done = << >>
  /\ faults = 0
  /\ rewritten = {}
  /\ platform = TRUE

\* scanner.scan(text); kind, api = scanner.get_identity().
ScanText ==
  /\ pc = "scan"
  /\ found' = Scan(found, cur.text)
  /\ done' = <<[lines |-> cur.text, found_before |-> found,
                kind |-> Scan(found, cur.text).kind, api |-> Scan(found, cur.text).api]>>
  /\ pc' = "scanned"
  /\ UNCHANGED <<fs, backups, tmp, comment_map, orphans, queue, args, cur, platform, faults,
               rewritten>>

NextScan == ScanText

SpecScan == InitScan /\ [][NextScan]_vars

\* The lines of the text that give `key` a value.
LinesFor(lines, key) ==
  {i \in 1..Len(lines) : lines[i].k = "data" /\ lines[i].key = key /\ HasValue(lines[i])}

\* The first of them.
FirstLineFor(lines, key) ==
  CHOOSE i \in LinesFor(lines, key) : \A m \in LinesFor(lines, key) : i <= m

\* C25: the identity scan detects is the value, without its quotes, of the
\* first line that gives kind a value and of the first line that gives
\* apiVersion a value; later kind and apiVersion lines do not change it.
FirstSeenIdentity ==
  \A e \in Reports :
    /\ LinesFor(e.lines, "kind") # {} =>
         e.kind = e.lines[FirstLineFor(e.lines, "kind")].val
    /\ LinesFor(e.lines, "apiVersion") # {} =>
         e.api = e.lines[FirstLineFor(e.lines, "apiVersion")].val

----------------------------------------------------------------------------
\* The nesting of the structurer (SpecStruct): two texts with the same
\* lines and different indents go through the lexer and the frame stack
\* side by side, shard by shard.  The catalog knows no kind, so every
\* schema node is the permissive one.

MaxStructShards == 3

StructIndents == {0, 1, 2, 4}
StructShapes == {"map", "leaf", "item"}
StructKeys == <<"a", "b", "c", "d", "e">>

\* Line n of a text: a key that opens a block, a key with a value, and a
\* key that opens a block behind a list dash.
ShapeLine(shape, indent, n) ==
  CASE shape = "map" -> KV(indent, StructKeys[n], "")
    [] shape = "leaf" -> KV(indent, StructKeys[n], "v")
    [] OTHER -> Item(indent, StructKeys[n], "")

Cmp(x, y) == IF x < y THEN "lt" ELSE IF x = y THEN "eq" ELSE "gt"

\* The indents of the last shard of p and of q compare in the same way
\* with the indent of every earlier shard, and with the column of the key
\* of every earlier list item that opens a block.
SameOrder(p, q) ==
  \A j \in 1..(Len(p) - 1) :
    /\ Cmp(p[Len(p)].indent, p[j].indent) = Cmp(q[Len(q)].indent, q[j].indent)
    /\ (p[j].is_list_item /\ p[j].value = None) =>
         Cmp(p[Len(p)].indent, p[j].indent + 2) = Cmp(q[Len(q)].indent, q[j].indent + 2)

\* One text under construction: its lines and the structurer's state.
Side(lines, st) == [lines |-> lines, st |-> st]

InitStruct ==
  /\ EngineInit
  /\ platform = TRUE
  /\ fs = [f \in Files |-> Absent]

\* reconstruct() up to its loop, for both texts: the seeded stack.
StartReconstruct ==
  /\ pc = "idle"
  /\ \E fresh \in {FreshDoc([kinds |-> << >>, schemas |-> << >>], << >>, 1).st} :
       cur' = [p |-> Side(<< >>, fresh), q |-> Side(<< >>, fresh), steps |-> << >>]
  /\ pc' = "struct"
  /\ done' = << >>
  /\ UNCHANGED <<fs, backups, tmp, comment_map, orphans, found, queue, args, platform, faults,
               rewritten>>

\* Steps 3 to 7 for the next shard of both texts.
StructShard ==
  /\ pc = "struct"
  /\ Len(cur.p.lines) < MaxStructShards
  /\ \E shape \in StructShapes, ip, iq \in StructIndents :
     \E lp \in {Append(cur.p.lines, ShapeLine(shape, ip, Len(cur.p.lines) + 1))} :
     \E lq \in {Append(cur.q.lines, ShapeLine(shape, iq, Len(cur.q.lines) + 1))} :
       /\ SameOrder(LexShard(lp), LexShard(lq))
       /\ cur' = [p |-> Side(lp, StructStep(cur.p.st, LexShard(lp)[Len(lp)], NoComments)),
                  q |-> Side(lq, StructStep(cur.q.st, LexShard(lq)[Len(lq)], NoComments)),
                  steps |-> Append(cur.steps,
                                   [shard |-> LexShard(lp)[Len(lp)], before |-> cur.p.st.stack])]
  /\ UNCHANGED <<fs, backups, tmp, comment_map, orphans, found, pc, queue, args, done, platform,
               faults, rewritten>>

\* reconstruct() returns the documents of both texts.
ReturnDocs ==
  /\ pc = "struct"
  /\ cur.steps # << >>
  /\ done' = <<[p |-> cur.p.st.root, q |-> cur.q.st.root]>>
  /\ pc' = "idle"
  /\ cur' = << >>
  /\ UNCHANGED <<fs, backups, tmp, comment_map, orphans, found, queue, args, platform, faults,
               rewritten>>

NextStruct == StartReconstruct \/ StructShard \/ ReturnDocs

SpecStruct == InitStruct /\ [][NextStruct]_vars

\* The frame of the stack that is the nearest open scope below the indent:
\* the topmost one with a strictly smaller threshold.
NearestScope(stack, indent) ==
  CHOOSE i \in 1..Len(stack) :
    /\ stack[i].thr < indent
    /\ \A m \in (i + 1)..Len(stack) : stack[m].thr >= indent

\* The stack is seeded with the root frame below every indent, and its
\* thresholds strictly increase from bottom to top.
WellStacked(stack) ==
  /\ stack # << >>
  /\ stack[1].thr = -1 /\ stack[1].path = << >>
  /\ \A i, j \in 1..Len(stack) : i < j => stack[i].thr < stack[j].thr

\* The shard of step s sits in the container of the nearest open scope of
\* the stack it met: under its key in a map, in the last element of a
\* sequence when it is a list item.
InNearestScope(root, s) ==
  \E c \in {GetAt(root, s.before[NearestScope(s.before, s.shard.indent)].path)} :
    IF s.shard.is_list_item
    THEN /\ IsSeq(c) /\ c.items # << >>
         /\ IsMap(Last(c.items)) /\ Last(c.items).keys = <<s.shard.key>>
    ELSE IsMap(c) => HasKey(c, s.shard.key)

----------------------------------------------------------------------------
\* Backups of earlier sessions (SpecBackups): the engine over a workspace
\* that already holds backup files.

EarlierBackups ==
  {<< >>,
   (<<"a", 0>> :> Text(TextOk)),
   (<<"a", 1>> :> Text(TextOk)),
   (<<"B", 0>> :> Text(TextComments))}

InitBackups ==
  /\ backups \in EarlierBackups
  /\ tmp = [s \in {Stem(f) : f \in Files} |-> Absent]
  /\ comment_map = NoComments
  /\ orphans = << >>
  /\ found = [kind |-> None, api |-> None]
  /\ pc = "idle"
  /\ queue = << >>
  /\ args = [dry_run |-> TRUE, force_write |-> FALSE, strict |-> FALSE,
             max_depth |-> 0, batch |-> FALSE, candidates |-> << >>]
  /\ cur = << >>
  /\ done = << >>
  /\ faults = 0
  /\ rewritten = {}
  /\ platform = TRUE
  /\ \E a \in {Text(TextDamaged), Text(TextTypo), Text(TextOk)} :
       fs = [f \in Files |-> CASE f = "a.yaml" -> a [] f = "B.YAML" -> Text(TextNoKind)
                               [] OTHER -> Text(TextOk)]

SpecBackups == InitBackups /\ [][Next]_vars

\* C27: a backup never overwrites an earlier backup: the backup files a
\* call finds are there afterwards with the same content, the path of the
\* backup it takes did not exist before, and every write of the file adds
\* one backup file to those that were there.
BackupsNeverOverwritten ==
  \A e \in Reports :
    /\ \A p \in DOMAIN e.g.pre_backups :
         p \in DOMAIN e.g.post_backups /\ e.g.post_backups[p] = e.g.pre_backups[p]
    /\ e.r.backup_created # NoBackup => e.r.backup_created \notin DOMAIN e.g.pre_backups
    /\ e.r.written =>
         Cardinality(DOMAIN e.g.post_backups) = Cardinality(DOMAIN e.g.pre_backups) + 1

\* C28: a report with status HEALED has written = true and success = true,
\* and the file of a report with written = false has the content it had
\* when the call began.
HealedMeansWritten ==
  \A e \in Reports :
    /\ e.r.status = "HEALED" => e.r.written /\ e.r.success
    /\ ~e.r.written => e.g.post = e.g.pre

\* ---------------------------------------------------------------------------
\* healing/structurer.py: the line-based indentation healer.
\* A line is a sequence of characters; a text is the sequence of its
\* segments between "\n" (a text that ends with "\n" has an empty last
\* segment, the empty text is one empty segment).

\* str.startswith(prefix)
StartsWith(s, prefix) ==
  Len(s) >= Len(prefix) /\ SubSeq(s, 1, Len(prefix)) = prefix

\* str.splitlines(): no line for the empty segment after a final "\n".
SplitLines(text) ==
  IF Last(text) = << >> THEN Front(text) ELSE text

\* "\n".join(lines)
JoinLines(lines) ==
  IF lines = << >> THEN << << >> >> ELSE lines

\* [a-zA-Z0-9_-]
IsAnchorChar(c) == IsAlpha(c) \/ c \in Digits \/ c \in {"_", "-"}

\* _is_anchor_or_alias(line): re.match(r'^[ \t]*[&*][a-zA-Z0-9_-]+', line.strip())
IsAnchorOrAlias(line) ==
  /\ Len(StripChars(line)) >= 2
  /\ StripChars(line)[1] \in {"&", "*"}
  /\ IsAnchorChar(StripChars(line)[2])

\* _is_protected_structure(line)
IsProtectedStructure(line) ==
  \/ StartsWith(StripChars(line), <<"%", "YAML">>)
  \/ StartsWith(StripChars(line), <<"%", "TAG">>)
  \/ StartsWith(StripChars(line), <<"-", "-", "-">>)
  \/ StartsWith(StripChars(line), <<".", ".", ".">>)
  \/ IsAnchorOrAlias(line)
  \/ StartsWith(StripChars(line), <<"|">>)
  \/ StartsWith(StripChars(line), <<">">>)

\* len(line) - len(line.lstrip())
IndentOf(line) == Len(line) - Len(LStripChars(line))

\* A grid snap that keeps the indent as it is.
SnapKeep(current_indent) == current_indent

\* round(current_indent / 2) * 2, Python rounding a half to the even integer.
GridSnap(current_indent) ==
  IF current_indent % 2 = 0 THEN current_indent
  ELSE IF ((current_indent - 1) \div 2) % 2 = 0
       THEN current_indent - 1
       ELSE current_indent + 1

\* The indent _apply_magnetic_snap gives a line that is not blank, comment
\* or protected, after a dash anchor at last_dash_indent (-1 for none).
SnappedIndent(line, last_dash_indent) ==
  IF /\ StartsWith(LStripChars(line), <<"-", " ">>)
     /\ last_dash_indent # -1
     /\ IndentOf(line) > last_dash_indent
     /\ GridSnap(IndentOf(line)) <= last_dash_indent
  THEN last_dash_indent + 2
  ELSE GridSnap(IndentOf(line))

\* The dash anchor after the line.
NextDashIndent(line, last_dash_indent) ==
  IF StartsWith(LStripChars(line), <<"-", " ">>)
  THEN SnappedIndent(line, last_dash_indent)
  ELSE IF SnappedIndent(line, last_dash_indent) < last_dash_indent
       THEN -1
       ELSE last_dash_indent

\* The lines _apply_magnetic_snap passes through: blank and comment lines.
IsBlankOrComment(line) ==
  LStripChars(line) = << >> \/ StartsWith(LStripChars(line), <<"#">>)

\* _apply_magnetic_snap: the loop over lines, from line i on.
RECURSIVE SnapFrom(_, _, _)
SnapFrom(lines, i, last_dash_indent) ==
  IF i > Len(lines) THEN << >>
  ELSE IF IsBlankOrComment(lines[i])
       THEN <<lines[i]>> \o SnapFrom(lines, i + 1, last_dash_indent)
  ELSE IF IsProtectedStructure(lines[i])
       THEN <<lines[i]>> \o SnapFrom(lines, i + 1, -1)
  ELSE <<Spaces(SnappedIndent(lines[i], last_dash_indent)) \o LStripChars(lines[i])>>
         \o SnapFrom(lines, i + 1, NextDashIndent(lines[i], last_dash_indent))

\* _apply_magnetic_snap(yaml_str)
ApplyMagneticSnap(text) == JoinLines(SnapFrom(SplitLines(text), 1, -1))

\* The lines the snap is applied to: bodies behind 0..5 spaces or a tab.
SnapLines ==
  { << >>, <<" ", " ", " ">>,
    <<" ", "#", "x">>, <<" ", " ", " ", "#", "x">>,
    <<"-", "-", "-">>, <<" ", "&", "x">>, <<" ", " ", " ", "|">>,
    <<"k", ":">>, <<" ", "k", ":">>, <<" ", " ", " ", "k", ":">>, <<"\t", "k", ":">>,
    <<" ", "-", "x">> } \cup
  { Spaces(n) \o <<"-", " ", "x">> : n \in 0..5 }

MaxSnapLines == 3

SnapTexts == UNION {[1..n -> SnapLines] : n \in 1..MaxSnapLines}

InitSnap ==
  /\ backups = << >>
  /\ tmp = [s \in {Stem(f) : f \in Files} |-> Absent]
  /\ fs = [f \in Files |-> Absent]
  /\ comment_map = NoComments
  /\ orphans = << >>
  /\ found = [kind |-> None, api |-> None]
  /\ pc = "snap"
  /\ queue = << >>
  /\ args = [dry_run |-> TRUE, force_write |-> FALSE, strict |-> FALSE,
             max_depth |-> 0, batch |-> FALSE, candidates |-> << >>]
  /\ cur \in {[text |-> t] : t \in SnapTexts}
  /\ done = << >>
  /\ faults = 0
  /\ rewritten = {}
  /\ platform = TRUE

\* snapped = _apply_magnetic_snap(text); again = _apply_magnetic_snap(snapped)
SnapText ==
  /\ pc = "snap"
  /\ done' = <<[lines |-> SplitLines(cur.text),
                snapped_lines |-> SnapFrom(SplitLines(cur.text), 1, -1),
                snapped |-> ApplyMagneticSnap(cur.text),
                again |-> ApplyMagneticSnap(ApplyMagneticSnap(cur.text))]>>
  /\ pc' = "snapped"
  /\ UNCHANGED <<fs, backups, tmp, comment_map, orphans, found, queue, args, cur, platform,
               faults, rewritten>>

NextSnap == SnapText

SpecSnap == InitSnap /\ [][NextSnap]_vars

\* A line the snap must leave as it is.
SnapExempt(line) == IsBlankOrComment(line) \/ IsProtectedStructure(line)

\* The line is indented by an even number of spaces.
EvenIndent(line) ==
  /\ IndentOf(line) % 2 = 0
  /\ \A j \in 1..IndentOf(line) : line[j] = " "

\* The lines of a text without its last line when that line is empty.
DropEmptyLast(lines) ==
  IF lines # << >> /\ Last(lines) = << >> THEN Front(lines) ELSE lines

\* C30: _apply_magnetic_snap keeps the number and order of lines, leaves
\* blank, comment and protected lines unchanged, gives every other line an
\* even indent, and snapping the snapped text changes no line.
SnapKeepsLinesOnGrid ==
  \A e \in Reports :
    /\ Len(SplitLines(e.snapped)) = Len(e.lines)
    /\ \A i \in 1..Len(SplitLines(e.snapped)) :
         /\ LStripChars(SplitLines(e.snapped)[i]) = LStripChars(e.lines[i])
         /\ SnapExempt(e.lines[i]) => SplitLines(e.snapped)[i] = e.lines[i]
         /\ ~SnapExempt(e.lines[i]) => EvenIndent(SplitLines(e.snapped)[i])
    /\ SplitLines(e.again) = SplitLines(e.snapped)

\* C30, amended: the snapped text is the snapped lines joined without a final
\* line break, so it has the lines of the text in number and order except an
\* empty last line; blank, comment and protected lines are unchanged, every
\* other line has an even indent of spaces; snapping the snapped text changes
\* no line and again drops an empty last line.
SnapKeepsLinesUpToFinalBreak ==
  \A e \in Reports :
    /\ Len(e.snapped_lines) = Len(e.lines)
    /\ SplitLines(e.snapped) = DropEmptyLast(e.snapped_lines)
    /\ \A i \in 1..Len(e.lines) :
         /\ LStripChars(e.snapped_lines[i]) = LStripChars(e.lines[i])
         /\ SnapExempt(e.lines[i]) => e.snapped_lines[i] = e.lines[i]
         /\ ~SnapExempt(e.lines[i]) => EvenIndent(e.snapped_lines[i])
    /\ SplitLines(e.again) = DropEmptyLast(SplitLines(e.snapped))

\* A dash item one space behind its parent dash is moved two behind it, next
\* to a protected line at an odd indent, and the second snap changes nothing.
SnapKeepsLinesUpToFinalBreakWitness ==
  \E e \in Reports :
    /\ e.lines = <<<<"-", " ", "x">>, <<" ", "-", " ", "x">>, <<" ", "&", "x">>>>
    /\ e.snapped_lines[2] = <<" ", " ", "-", " ", "x">>
    /\ e.snapped_lines[3] = <<" ", "&", "x">>
    /\ e.again = e.snapped

\* ---------------------------------------------------------------------------
\* structurer.py: _process_single_doc, the iterative fixer.
\* The parser (ruamel.yaml) is outside the repository: validate_and_roundtrip
\* is a choice among its outcomes, the same outcome for the same text.

\* for attempt in range(3)
MaxAttempts == 3

\* The outcomes of validate_and_roundtrip(clean_yaml): (True, dumped text),
\* (False, "STRUCTURE_ERROR:L<line_num>:C<col>:...") with line_num = mark.line + 1,
\* or (False, "STRUCTURE_ERROR:...") for an error without a mark.
ValidateOutcomes(clean_yaml) ==
  {[valid |-> TRUE, marked |-> FALSE, line_num |-> 0],
   [valid |-> FALSE, marked |-> FALSE, line_num |-> 0]} \cup
  {[valid |-> FALSE, marked |-> TRUE, line_num |-> l + 1] :
     l \in 0..Len(SplitLines(clean_yaml))}

\* _extract_line(error_info): the 0-based line of the error, -1 for none.
ExtractLine(error_info) ==
  IF error_info.marked THEN error_info.line_num - 1 ELSE -1

\* The index of the first "#" of the line that follows white space, 0 for none.
RECURSIVE CommentAt(_, _)
CommentAt(line, q) ==
  IF q > Len(line) THEN 0
  ELSE IF line[q] = "#" /\ IsSpace(line[q - 1]) THEN q
  ELSE CommentAt(line, q + 1)

\* re.split(r'\s+#', line)[0].rstrip()
RawContent(line) ==
  IF CommentAt(line, 2) = 0 THEN RStripChars(line)
  ELSE RStripChars(SubSeq(line, 1, CommentAt(line, 2) - 1))

\* _find_parent_indent: the loop from line i (1-based) upwards.
RECURSIVE FindParentFrom(_, _)
FindParentFrom(lines, i) ==
  IF i < 1 THEN 0
  ELSE IF \/ StripChars(RawContent(lines[i])) = << >>
          \/ StartsWith(StripChars(RawContent(lines[i])), <<"#">>)
          \/ IsProtectedStructure(RawContent(lines[i]))
       THEN FindParentFrom(lines, i - 1)
  ELSE IF /\ Last(RawContent(lines[i])) = ":"
          /\ ~StartsWith(LStripChars(RawContent(lines[i])), <<"-", " ">>)
       THEN IndentOf(RawContent(lines[i]))
  ELSE FindParentFrom(lines, i - 1)

\* _find_parent_indent(lines, err_line), err_line 0-based.
FindParentIndent(lines, err_line) == FindParentFrom(lines, err_line)

\* fixed_line = (' ' * target_indent + target_line.lstrip()).rstrip()
FixedLine(lines, err_line) ==
  RStripChars(Spaces(FindParentIndent(lines, err_line) + 2)
              \o LStripChars(ExpandTabs(lines[err_line + 1])))

\* The test that decides whether auto_fix_indentation rewrites the target line.
NeedsFix(lines, err_line) ==
  \/ IndentOf(ExpandTabs(lines[err_line + 1])) # FindParentIndent(lines, err_line) + 2
  \/ HasChar(ExpandTabs(lines[err_line + 1]), "\t")
  \/ IndentOf(ExpandTabs(lines[err_line + 1])) % 2 # 0

\* A fixer that sets every line of the text to the target indent.
AutoFixEveryLine(yaml_str, error_info) ==
  JoinLines([j \in 1..Len(SplitLines(yaml_str)) |->
               Spaces(2) \o LStripChars(SplitLines(yaml_str)[j])])

\* auto_fix_indentation(yaml_str, error_info)
AutoFixIndentation(yaml_str, error_info) ==
  IF ExtractLine(error_info) = -1 THEN yaml_str
  ELSE IF ExtractLine(error_info) >= Len(SplitLines(yaml_str)) THEN yaml_str
  ELSE IF IsProtectedStructure(ExpandTabs(SplitLines(yaml_str)[ExtractLine(error_info) + 1]))
       THEN yaml_str
  ELSE IF NeedsFix(SplitLines(yaml_str), ExtractLine(error_info))
       THEN JoinLines([SplitLines(yaml_str) EXCEPT
                         ![ExtractLine(error_info) + 1] =
                           FixedLine(SplitLines(yaml_str), ExtractLine(error_info))])
  ELSE yaml_str

\* The test of _process_single_doc for an error on a protected line.
StuckOnProtected(fixed_yaml, error_info) ==
  /\ ExtractLine(error_info) # -1
  /\ ExtractLine(error_info) < Len(SplitLines(fixed_yaml))
  /\ IsProtectedStructure(SplitLines(fixed_yaml)[ExtractLine(error_info) + 1])

\* The lines of the documents handed to _process_single_doc.
FixLines ==
  { << >>,
    <<" ", " ", " ">>,
    <<"k", ":">>,
    <<" ", " ", " ", " ", "k", ":", " ", "x">>,
    <<"-", "-", "-">>,
    <<"\t", "#", "x">>,
    <<" ", " ", "-", " ", "k", ":">>,
    <<" ", " ", "k", ":", " ", "#", "x">> }

MaxFixLines == 3

FixTexts == UNION {[1..n -> FixLines] : n \in 1..MaxFixLines}

\* A returned text: the dump of a loaded text, or a text as it stands.
Dumped(text) == [roundtrip |-> TRUE, text |-> text]
Plain(text) == [roundtrip |-> FALSE, text |-> text]

InitFix ==
  /\ backups = << >>
  /\ tmp = [s \in {Stem(f) : f \in Files} |-> Absent]
  /\ fs = [f \in Files |-> Absent]
  /\ comment_map = NoComments
  /\ orphans = << >>
  /\ found = [kind |-> None, api |-> None]
  /\ pc = "snap"
  /\ queue = << >>
  /\ args = [dry_run |-> TRUE, force_write |-> FALSE, strict |-> FALSE,
             max_depth |-> 0, batch |-> FALSE, candidates |-> << >>]
  /\ cur \in {[text |-> t] : t \in FixTexts}
  /\ done = << >>
  /\ faults = 0
  /\ rewritten = {}
  /\ platform = TRUE

\* _process_single_doc: the magnetic snap and the initial validation.
SnapAndValidate ==
  /\ pc = "snap"
  /\ \E o \in ValidateOutcomes(ApplyMagneticSnap(cur.text)) :
       IF o.valid
       THEN /\ done' = <<[text |-> cur.text, status |-> "STRUCTURE_OK",
                          returned |-> Dumped(ApplyMagneticSnap(cur.text)),
                          validated |-> <<[text |-> ApplyMagneticSnap(cur.text), result |-> o]>>,
                          steps |-> << >>]>>
            /\ pc' = "returned"
            /\ cur' = cur
       ELSE /\ cur' = [text |-> cur.text, current_yaml |-> ApplyMagneticSnap(cur.text),
                       result |-> o, attempt |-> 0,
                       validated |-> <<[text |-> ApplyMagneticSnap(cur.text), result |-> o]>>,
                       steps |-> << >>]
            /\ pc' = "fixing"
            /\ done' = done
  /\ UNCHANGED <<fs, backups, tmp, comment_map, orphans, found, queue, args, platform,
               faults, rewritten>>

\* The status f"STRUCTURE_FIXED_{attempt+1}".
FixedStatus(attempt) ==
  CASE attempt = 0 -> "STRUCTURE_FIXED_1"
    [] attempt = 1 -> "STRUCTURE_FIXED_2"
    [] OTHER -> "STRUCTURE_FIXED_3"

\* _process_single_doc: one pass of the loop over range(3).
FixAttempt ==
  /\ pc = "fixing"
  /\ cur.attempt < MaxAttempts
  /\ \E fixed_yaml \in {AutoFixIndentation(cur.current_yaml, cur.result)} :
     \E step \in {[before |-> cur.current_yaml, result |-> cur.result,
                   fixed |-> fixed_yaml]} :
       IF StuckOnProtected(fixed_yaml, cur.result)
       THEN /\ done' = <<[text |-> cur.text, status |-> "STRUCTURE_PROTECTED_SKIP",
                          returned |-> Plain(cur.current_yaml),
                          validated |-> cur.validated,
                          steps |-> Append(cur.steps, step)]>>
            /\ pc' = "returned"
            /\ cur' = cur
       ELSE \E o \in ValidateOutcomes(fixed_yaml) :
              /\ fixed_yaml = cur.current_yaml => o = cur.result
              /\ IF o.valid
                 THEN /\ done' = <<[text |-> cur.text, status |-> FixedStatus(cur.attempt),
                                    returned |-> Dumped(fixed_yaml),
                                    validated |-> Append(cur.validated,
                                                         [text |-> fixed_yaml, result |-> o]),
                                    steps |-> Append(cur.steps, step)]>>
                      /\ pc' = "returned"
                      /\ cur' = cur
                 ELSE /\ cur' = [cur EXCEPT !.current_yaml = fixed_yaml, !.result = o,
                                            !.attempt = cur.attempt + 1,
                                            !.validated = Append(cur.validated,
                                                                 [text |-> fixed_yaml, result |-> o]),
                                            !.steps = Append(cur.steps, step)]
                      /\ pc' = "fixing"
                      /\ done' = done
  /\ UNCHANGED <<fs, backups, tmp, comment_map, orphans, found, queue, args, platform,
               faults, rewritten>>

\* _process_single_doc: return current_yaml, "STRUCTURE_FAIL" after the loop.
ReturnFail ==
  /\ pc = "fixing"
  /\ cur.attempt >= MaxAttempts
  /\ done' = <<[text |-> cur.text, status |-> "STRUCTURE_FAIL",
                returned |-> Plain(cur.current_yaml),
                validated |-> cur.validated, steps |-> cur.steps]>>
  /\ pc' = "returned"
  /\ UNCHANGED <<fs, backups, tmp, comment_map, orphans, found, queue, args, cur, platform,
               faults, rewritten>>

NextFix == SnapAndValidate \/ FixAttempt \/ ReturnFail

SpecFix == InitFix /\ [][NextFix]_vars

StructureStatuses ==
  {"STRUCTURE_OK", "STRUCTURE_FIXED_1", "STRUCTURE_FIXED_2", "STRUCTURE_FIXED_3",
   "STRUCTURE_PROTECTED_SKIP", "STRUCTURE_FAIL"}

ValidatedStatuses ==
  {"STRUCTURE_OK", "STRUCTURE_FIXED_1", "STRUCTURE_FIXED_2", "STRUCTURE_FIXED_3"}

\* The returned text is the dump of a text the parser accepted.
ValidatedRoundTrip(e) ==
  /\ e.returned.roundtrip
  /\ \E v \in 1..Len(e.validated) :
       e.validated[v].text = e.returned.text /\ e.validated[v].result.valid

\* The fix attempt changed at most the reported line, and no protected line.
OneLineFix(step) ==
  /\ Len(SplitLines(step.fixed)) = Len(SplitLines(step.before))
  /\ \A j \in 1..Len(SplitLines(step.before)) :
       SplitLines(step.fixed)[j] # SplitLines(step.before)[j] =>
         /\ step.result.marked
         /\ j = step.result.line_num
         /\ ~IsProtectedStructure(SplitLines(step.before)[j])

\* The fix attempt changed at most the reported line, and no protected line,
\* and the text lost at most a blank last line with its final line break:
\* an empty one, or the reported one when the fix left it empty.
OneLineFixUpToFinalBreak(step) ==
  /\ Len(SplitLines(step.fixed)) <= Len(SplitLines(step.before))
  /\ Len(SplitLines(step.fixed)) >= Len(SplitLines(step.before)) - 1
  /\ Len(SplitLines(step.fixed)) < Len(SplitLines(step.before)) =>
       /\ LStripChars(Last(SplitLines(step.before))) = << >>
       /\ Last(SplitLines(step.before)) # << >> =>
            step.result.marked /\ step.result.line_num = Len(SplitLines(step.before))
  /\ \A j \in 1..Len(SplitLines(step.fixed)) :
       SplitLines(step.fixed)[j] # SplitLines(step.before)[j] =>
         /\ step.result.marked
         /\ j = step.result.line_num
         /\ ~IsProtectedStructure(SplitLines(step.before)[j])

\* The parts of C29 on the end of the call and on the returned text.
EndsWithStatus(e) ==
  /\ e.status \in StructureStatuses
  /\ Len(e.steps) <= MaxAttempts
  /\ e.status = "STRUCTURE_FAIL" => Len(e.steps) = MaxAttempts
  /\ ValidatedRoundTrip(e) <=> e.status \in ValidatedStatuses
  /\ ~e.returned.roundtrip =>
       \E v \in 1..Len(e.validated) :
         e.validated[v].text = e.returned.text /\ ~e.validated[v].result.valid

\* C29: _process_single_doc ends after at most three fix attempts with a
\* status among STRUCTURE_OK, STRUCTURE_FIXED_1..3, STRUCTURE_PROTECTED_SKIP
\* and STRUCTURE_FAIL; the returned text is a validated round-trip exactly
\* when the status is STRUCTURE_OK or STRUCTURE_FIXED_n; each fix attempt
\* changes at most the line the parser reported and never a protected line.
BoundedFixing ==
  /\ pc = "fixing" => cur.attempt <= MaxAttempts /\ Len(cur.steps) = cur.attempt
  /\ \A e \in Reports :
       /\ EndsWithStatus(e)
       /\ \A k \in 1..Len(e.steps) : OneLineFix(e.steps[k])

\* C29, amended: as C29, but a fix attempt that rewrites the reported line
\* returns the lines joined without a final line break, so it also drops an
\* empty last line of the text.
BoundedFixingUpToFinalBreak ==
  /\ pc = "fixing" => cur.attempt <= MaxAttempts /\ Len(cur.steps) = cur.attempt
  /\ \A e \in Reports :
       /\ EndsWithStatus(e)
       /\ \A k \in 1..Len(e.steps) : OneLineFixUpToFinalBreak(e.steps[k])

\* A document fixed at the second attempt: the first moved the reported line
\* under its parent key, the second moved another line, and the parser
\* accepted the result.
BoundedFixingUpToFinalBreakWitness ==
  \E e \in Reports :
    /\ e.status = "STRUCTURE_FIXED_2"
    /\ SplitLines(e.steps[1].fixed) # SplitLines(e.steps[1].before)
    /\ SplitLines(e.steps[2].fixed) # SplitLines(e.steps[2].before)
    /\ ValidatedRoundTrip(e)
====
